---- MODULE Spec2Model ----
(***************************************************************************)
(* Job-array subjob tracking of the PBS server (src/server/array_func.c):  *)
(* the range codec (parse_subjob_index, cvt_range), the index/offset       *)
(* mapping (numindex_to_offset), the tracking table (mk_subjob_index_tbl,  *)
(* set_subjob_tblstate), the lifecycle operations (update_subjob_state,    *)
(* chk_array_doneness, fixup_arrayindicies) and create_subjob.             *)
(*                                                                         *)
(* C strings are sequences of one-character strings; the character read    *)
(* past the last one is NUL.  Positions are 1-based: the C pointer s + k   *)
(* is position k + 1.                                                      *)
(***************************************************************************)
EXTENDS Integers, Sequences, FiniteSets, TLC

(***************************************************************************)
(* Job states, numbered as the statename[] table of update_subjob_state_ct *)
(* orders them.                                                            *)
(***************************************************************************)
JOB_STATE_TRANSIT == 0
JOB_STATE_QUEUED == 1
JOB_STATE_HELD == 2
JOB_STATE_WAITING == 3
JOB_STATE_RUNNING == 4
JOB_STATE_EXITING == 5
JOB_STATE_EXPIRED == 6
JOB_STATE_BEGUN == 7
JOB_STATE_MOVED == 8
JOB_STATE_FINISHED == 9
PBS_NUMJOBSTATE == 10

AllJobStates == 0 .. (PBS_NUMJOBSTATE - 1)

(* The four states chk_array_doneness counts as still active. *)
ActiveStates ==
  {JOB_STATE_QUEUED, JOB_STATE_RUNNING, JOB_STATE_HELD, JOB_STATE_EXITING}

(***************************************************************************)
(* Characters and the libc helpers the codec uses.                         *)
(***************************************************************************)
NUL == ""

CharAt(s, i) == IF i >= 1 /\ i <= Len(s) THEN s[i] ELSE NUL

Digits == {"0", "1", "2", "3", "4", "5", "6", "7", "8", "9"}

isdigit(c) == c \in Digits

isspace(c) == c \in {" ", "\t", "\n", "\f", "\r"}

DigitVal(c) ==
  CASE c = "0" -> 0 [] c = "1" -> 1 [] c = "2" -> 2 [] c = "3" -> 3
    [] c = "4" -> 4 [] c = "5" -> 5 [] c = "6" -> 6 [] c = "7" -> 7
    [] c = "8" -> 8 [] c = "9" -> 9

DigitChar(d) ==
  CASE d = 0 -> "0" [] d = 1 -> "1" [] d = 2 -> "2" [] d = 3 -> "3"
    [] d = 4 -> "4" [] d = 5 -> "5" [] d = 6 -> "6" [] d = 7 -> "7"
    [] d = 8 -> "8" [] d = 9 -> "9"

(* C integer division and remainder truncate toward zero. *)
CDiv(a, b) ==
  IF b > 0 /\ a < 0
  THEN (IF a % b = 0 THEN a \div b ELSE (a \div b) + 1)
  ELSE IF (a >= 0) = (b > 0)
  THEN (IF a >= 0 THEN a ELSE -a) \div (IF b > 0 THEN b ELSE -b)
  ELSE -((IF a >= 0 THEN a ELSE -a) \div (IF b > 0 THEN b ELSE -b))

CRem(a, b) == a - b * CDiv(a, b)

(* int is 32 bits wide. *)
INT_MAX == 2147483647

(* a + b leaves the range of int. *)
AddOverflows(a, b) ==
  \/ b > 0 /\ a > INT_MAX - b
  \/ b < 0 /\ a < (-INT_MAX - 1) - b

(* a + b as two's complement hardware computes it: the sum modulo 2^32,
   taken in -2^31..2^31-1. *)
AddInt(a, b) ==
  IF b > 0 /\ a > INT_MAX - b THEN (a - INT_MAX - 1) + (b - INT_MAX - 1)
  ELSE IF b < 0 /\ a < (-INT_MAX - 1) - b
  THEN (a + INT_MAX + 1) + (b + INT_MAX + 1)
  ELSE a + b

(* sprintf("%d", n) *)
RECURSIVE NatToStr(_)
NatToStr(n) ==
  IF n < 10 THEN <<DigitChar(n)>>
  ELSE NatToStr(n \div 10) \o <<DigitChar(n % 10)>>

IntToStr(n) == IF n < 0 THEN <<"-">> \o NatToStr(-n) ELSE NatToStr(n)

(***************************************************************************)
(* strtol(s + pos, &eptr, 10): skips white space, takes an optional sign   *)
(* and the longest run of digits.  With no digit at all the value is 0 and *)
(* eptr is the position it was given.  The numbers in the texts of this    *)
(* model never exceed INT_MAX, so the (int) cast of the result changes     *)
(* nothing.                                                                *)
(***************************************************************************)
RECURSIVE SkipSpace(_, _)
SkipSpace(s, i) == IF isspace(CharAt(s, i)) THEN SkipSpace(s, i + 1) ELSE i

RECURSIVE ScanDigits(_, _, _)
ScanDigits(s, i, acc) ==
  IF isdigit(CharAt(s, i))
  THEN ScanDigits(s, i + 1, acc * 10 + DigitVal(CharAt(s, i)))
  ELSE [val |-> acc, eptr |-> i]

StrtolResult(pos, neg, j, r) ==
  IF r.eptr = j THEN [val |-> 0, eptr |-> pos]
  ELSE [val |-> IF neg THEN -r.val ELSE r.val, eptr |-> r.eptr]

StrtolDigits(s, pos, neg, j) == StrtolResult(pos, neg, j, ScanDigits(s, j, 0))

StrtolSigned(s, pos, i) ==
  StrtolDigits(s, pos, CharAt(s, i) = "-",
               IF CharAt(s, i) \in {"-", "+"} THEN i + 1 ELSE i)

strtol(s, pos) == StrtolSigned(s, pos, SkipSpace(s, pos))

(* atoi(s): strtol without the end pointer. *)
atoi(s) == strtol(s, 1).val

(***************************************************************************)
(* parse_subjob_index(pc, &ep, &start, &end, &step, &count).               *)
(* The result records the return code and the out-parameters; one the call *)
(* did not write holds Unset.                                              *)
(***************************************************************************)
Unset == "unset"

RECURSIVE SkipSpaceComma(_, _)
SkipSpaceComma(s, i) ==
  IF isspace(CharAt(s, i)) \/ CharAt(s, i) = ","
  THEN SkipSpaceComma(s, i + 1) ELSE i

(* BadRange accepting X-X: "start > end" written for "start >= end". *)
BadRange_AcceptsEqual(start, end, step) == start > end \/ step < 1

(* "y must be greater than x for a range and z must be greater 0": the
   test that sends parse_subjob_index to its error return. *)
BadRange(start, end, step) == start >= end \/ step < 1

(* A variant of SegCount that leaves the last entry out. *)
SegCount_Exclusive(start, end, step) == CDiv(end - start, step)

(* The number of entries of a segment, (end - start + step) / step, in int
   arithmetic: past the range check end - start cannot overflow, adding
   step can. *)
SegCount(start, end, step) == CDiv(AddInt(end - start, step), step)

ParseOut(rc, ep, start, end, step, count) ==
  [rc |-> rc, ep |-> ep, start |-> start, end |-> end, step |-> step,
   count |-> count]

(* The steps of parse_subjob_index, last first.  pc is the cursor; r1, r2
   and r3 are what strtol returned for start, end and step. *)
ParseRange(pc, start, end, step) ==
  IF BadRange(start, end, step)
  THEN ParseOut(-1, Unset, Unset, Unset, Unset, Unset)
  ELSE ParseOut(0, pc, start, end, step, SegCount(start, end, step))

(* After the step: a comma under the cursor is consumed. *)
ParseStepEnd(s, start, end, step, pc) ==
  ParseRange(IF CharAt(s, pc) = "," THEN pc + 1 ELSE pc, start, end, step)

ParseAfterStep(s, start, end, r3) ==
  ParseStepEnd(s, start, end, r3.val, SkipSpace(s, r3.eptr))

(* After the end: X-Y leaves its terminator for the next call, X-Y:Z reads
   the step. *)
ParseEnd(s, start, end, pc) ==
  IF CharAt(s, pc) \in {NUL, ",", "]"}
  THEN ParseRange(pc, start, end, 1)
  ELSE IF CharAt(s, pc) # ":"
  THEN ParseOut(-1, Unset, Unset, Unset, Unset, 0)
  ELSE ParseAfterStep(s, start, end, strtol(s, SkipSpace(s, pc + 1)))

(* After the end, one white-space character at most is skipped. *)
ParseAfterEnd(s, start, r2) ==
  ParseEnd(s, start, r2.val,
           IF isspace(CharAt(s, r2.eptr)) THEN r2.eptr + 1 ELSE r2.eptr)

(* After the start: the "X," or "X" case, or the X-Y[:Z] case. *)
ParseSep(s, start, pc) ==
  IF CharAt(s, pc) \in {",", NUL, "]"}
  THEN ParseOut(0, IF CharAt(s, pc) = "," THEN pc + 1 ELSE pc,
                start, start, 1, SegCount(start, start, 1))
  ELSE IF CharAt(s, pc) # "-"
  THEN ParseOut(-1, Unset, Unset, Unset, Unset, 0)
  ELSE ParseAfterEnd(s, start, strtol(s, pc + 1))

(* ParseAfterStart without the loop that skips white space after X. *)
ParseAfterStart_NoSkip(s, r1) == ParseSep(s, r1.val, r1.eptr)

ParseAfterStart(s, r1) == ParseSep(s, r1.val, SkipSpace(s, r1.eptr))

ParseFirst_NoBracket(s, pc) ==
  IF CharAt(s, pc) = NUL
  THEN ParseOut(1, pc, Unset, Unset, Unset, 0)
  ELSE IF ~isdigit(CharAt(s, pc))
  THEN ParseOut(-1, Unset, Unset, Unset, Unset, Unset)
  ELSE ParseAfterStart(s, strtol(s, pc))

(* The head of parse_subjob_index once white space and commas are skipped:
   end of input, a first character that is no digit, or a start number. *)
ParseFirst(s, pc) ==
  IF CharAt(s, pc) = NUL \/ CharAt(s, pc) = "]"
  THEN ParseOut(1, pc, Unset, Unset, Unset, 0)
  ELSE IF ~isdigit(CharAt(s, pc))
  THEN ParseOut(-1, Unset, Unset, Unset, Unset, Unset)
  ELSE ParseAfterStart(s, strtol(s, pc))

parse_subjob_index(s, pos) == ParseFirst(s, SkipSpaceComma(s, pos))

(***************************************************************************)
(* The tracking table, struct ajtrkhd.  A pointer to a table is a sequence *)
(* of length 0 (NULL) or 1 (the table pointed at); entry o (0-based) of    *)
(* tkm_tbl is tkm_tbl[o + 1].  trk_psubjob holds the number of the subjob  *)
(* structure linked to the entry, NULLJOB when there is none.              *)
(***************************************************************************)
NULLJOB == 0

NULLTBL == <<>>

(* The flag bits of tkm_flags, kept as a set of names. *)
TKMFLG_NO_DELETE == "NO_DELETE"
TKMFLG_REVAL_IND_REMAINING == "REVAL_IND_REMAINING"
TKMFLG_CHK_ARRAY == "CHK_ARRAY"

(* SJ_TBLIDX_2_IDX(pjob, idx): the external index of table offset idx. *)
SJ_TBLIDX_2_IDX(t, idx) == t.tkm_start + idx * t.tkm_step

Entry(t, o) == t.tkm_tbl[o + 1]

ValidOffset(t, o) == o >= 0 /\ o < t.tkm_ct

(* Variants of numindex_to_offset: one divides by 1 instead of tkm_step,
   one neither tests the remainder nor looks the offset up in reverse. *)
numindex_to_offset_NoStep(ptbl, iindx) ==
  IF ptbl = NULLTBL THEN -1
  ELSE
    LET t == ptbl[1]
    IN IF CRem(iindx - t.tkm_start, t.tkm_step) # 0
          \/ t.tkm_start > iindx \/ iindx > t.tkm_end
       THEN -1
       ELSE
         LET i == iindx - t.tkm_start
         IN IF SJ_TBLIDX_2_IDX(t, i) # iindx THEN -1 ELSE i

numindex_to_offset_Truncating(ptbl, iindx) ==
  IF ptbl = NULLTBL THEN -1
  ELSE
    LET t == ptbl[1]
    IN IF t.tkm_start > iindx \/ iindx > t.tkm_end
       THEN -1
       ELSE CDiv(iindx - t.tkm_start, t.tkm_step)

(* The offsets of table t, and its external indices: start, start+step,
   ... up to end. *)
Offsets(t) == 0 .. (t.tkm_ct - 1)

ValidIndex(t, i) ==
  /\ t.tkm_start <= i
  /\ i <= t.tkm_end
  /\ (i - t.tkm_start) % t.tkm_step = 0

(***************************************************************************)
(* numindex_to_offset(parent, iindx), on the parent's table pointer.       *)
(***************************************************************************)
numindex_to_offset(ptbl, iindx) ==
  IF ptbl = NULLTBL THEN -1
  ELSE
    LET t == ptbl[1]
    IN IF CRem(iindx - t.tkm_start, t.tkm_step) # 0
          \/ t.tkm_start > iindx \/ iindx > t.tkm_end
       THEN -1
       ELSE
         LET i == CDiv(iindx - t.tkm_start, t.tkm_step)
         IN IF SJ_TBLIDX_2_IDX(t, i) # iindx THEN -1 ELSE i

(* subjob_index_to_offset(parent, index): index is the bracketed text. *)
subjob_index_to_offset(ptbl, index) ==
  IF ptbl = NULLTBL \/ CharAt(index, 1) = NUL THEN -1
  ELSE numindex_to_offset(ptbl, atoi(index))

(***************************************************************************)
(* set_subjob_tblstate(parent, offset, newstate), as the new table         *)
(* pointer.  The code reads tkm_tbl[offset] for every offset but -1; the   *)
(* callers modelled here pass -1 or an offset of the table.                *)
(***************************************************************************)
(* Variants of set_subjob_tblstate: one forgets "tkm_subjsct[oldstate]--",
   one forgets to write trk_status. *)
set_subjob_tblstate_NoDecrement(ptbl, offset, newstate) ==
  IF offset = -1 THEN ptbl
  ELSE IF ptbl = NULLTBL THEN ptbl
  ELSE
    LET t        == ptbl[1]
        oldstate == Entry(t, offset).trk_status
    IN IF oldstate = newstate THEN ptbl
       ELSE
         LET t1 == [t EXCEPT !.tkm_tbl[offset + 1].trk_status = newstate]
             t3 == [t1 EXCEPT !.tkm_subjsct[newstate] = @ + 1]
         IN <<[t3 EXCEPT !.tkm_flags = @ \cup {TKMFLG_REVAL_IND_REMAINING}]>>

set_subjob_tblstate_NoStatusWrite(ptbl, offset, newstate) ==
  IF offset = -1 THEN ptbl
  ELSE IF ptbl = NULLTBL THEN ptbl
  ELSE
    LET t        == ptbl[1]
        oldstate == Entry(t, offset).trk_status
    IN IF oldstate = newstate THEN ptbl
       ELSE
         LET t2 == [t EXCEPT !.tkm_subjsct[oldstate] = @ - 1]
             t3 == [t2 EXCEPT !.tkm_subjsct[newstate] = @ + 1]
         IN <<[t3 EXCEPT !.tkm_flags = @ \cup {TKMFLG_REVAL_IND_REMAINING}]>>

(* A variant of set_subjob_tblstate that forgets to set
   TKMFLG_REVAL_IND_REMAINING. *)
set_subjob_tblstate_NoDirty(ptbl, offset, newstate) ==
  IF offset = -1 THEN ptbl
  ELSE IF ptbl = NULLTBL THEN ptbl
  ELSE
    LET t        == ptbl[1]
        oldstate == Entry(t, offset).trk_status
    IN IF oldstate = newstate THEN ptbl
       ELSE
         LET t1 == [t EXCEPT !.tkm_tbl[offset + 1].trk_status = newstate]
             t2 == [t1 EXCEPT !.tkm_subjsct[oldstate] = @ - 1]
         IN <<[t2 EXCEPT !.tkm_subjsct[newstate] = @ + 1]>>

set_subjob_tblstate(ptbl, offset, newstate) ==
  IF offset = -1 THEN ptbl
  ELSE IF ptbl = NULLTBL THEN ptbl
  ELSE
    LET t        == ptbl[1]
        oldstate == Entry(t, offset).trk_status
    IN IF oldstate = newstate THEN ptbl
       ELSE
         LET t1 == [t EXCEPT !.tkm_tbl[offset + 1].trk_status = newstate]
             t2 == [t1 EXCEPT !.tkm_subjsct[oldstate] = @ - 1]
             t3 == [t2 EXCEPT !.tkm_subjsct[newstate] = @ + 1]
         IN <<[t3 EXCEPT !.tkm_flags = @ \cup {TKMFLG_REVAL_IND_REMAINING}]>>

(***************************************************************************)
(* mk_subjob_index_tbl(range, initalstate, &pbserror, mode).  limit is the *)
(* server's max_array_size when set, PBS_MAX_ARRAY_JOB_DFL otherwise;      *)
(* memok tells whether malloc returned memory.  The result is the table    *)
(* pointer and the error code written (PBSE_NONE when none was).           *)
(***************************************************************************)
ATR_ACTION_NEW == "NEW"
ATR_ACTION_ALTER == "ALTER"
ATR_ACTION_RECOV == "RECOV"

PBSE_NONE == "PBSE_NONE"
PBSE_BADATVAL == "PBSE_BADATVAL"
PBSE_MaxArraySize == "PBSE_MaxArraySize"
PBSE_SYSTEM == "PBSE_SYSTEM"
PBSE_UNKJOBID == "PBSE_UNKJOBID"
PBSE_BADSTATE == "PBSE_BADSTATE"
PBSE_IVALREQ == "PBSE_IVALREQ"
PBSE_MODATRRUN == "PBSE_MODATRRUN"

JOB_SUBSTATE_FINISHED == "JOB_SUBSTATE_FINISHED"

NewEntry(initalstate) ==
  [trk_status |-> initalstate, trk_error |-> 0, trk_discarding |-> 0,
   trk_substate |-> JOB_SUBSTATE_FINISHED, trk_stgout |-> -1,
   trk_exitstat |-> 0, trk_psubjob |-> NULLJOB]

(* The entries the loop "for (i = start; i <= end; i += step, j++)" fills. *)
RECURSIVE FillEntries(_, _, _, _)
FillEntries(i, end, step, initalstate) ==
  IF i <= end
  THEN <<NewEntry(initalstate)>> \o FillEntries(i + step, end, step, initalstate)
  ELSE <<>>

(* A variant of MkTblParsed that applies the size limit in every mode. *)
MkTblParsed_LimitAlways(p, initalstate, mode, limit, memok) ==
  IF p.rc # 0 THEN [tbl |-> NULLTBL, pbserror |-> PBSE_BADATVAL]
  ELSE IF p.count > limit
  THEN [tbl |-> NULLTBL, pbserror |-> PBSE_MaxArraySize]
  ELSE IF ~memok THEN [tbl |-> NULLTBL, pbserror |-> PBSE_SYSTEM]
  ELSE
    [tbl |->
       <<[tkm_ct |-> p.count, tkm_start |-> p.start, tkm_end |-> p.end,
          tkm_step |-> p.step, tkm_flags |-> {},
          tkm_subjsct |->
            [s \in AllJobStates |->
               IF s = JOB_STATE_QUEUED THEN p.count ELSE 0],
          tkm_tbl |-> FillEntries(p.start, p.end, p.step, initalstate)]>>,
     pbserror |-> PBSE_NONE]

(* mk_subjob_index_tbl after its parse_subjob_index call returned p. *)
MkTblParsed(p, initalstate, mode, limit, memok) ==
  IF p.rc # 0 THEN [tbl |-> NULLTBL, pbserror |-> PBSE_BADATVAL]
  ELSE IF mode \in {ATR_ACTION_NEW, ATR_ACTION_ALTER} /\ p.count > limit
  THEN [tbl |-> NULLTBL, pbserror |-> PBSE_MaxArraySize]
  ELSE IF ~memok THEN [tbl |-> NULLTBL, pbserror |-> PBSE_SYSTEM]
  ELSE
    [tbl |->
       <<[tkm_ct |-> p.count, tkm_start |-> p.start, tkm_end |-> p.end,
          tkm_step |-> p.step, tkm_flags |-> {},
          tkm_subjsct |->
            [s \in AllJobStates |->
               IF s = JOB_STATE_QUEUED THEN p.count ELSE 0],
          tkm_tbl |-> FillEntries(p.start, p.end, p.step, initalstate)]>>,
     pbserror |-> PBSE_NONE]

(* mk_subjob_index_tbl refusing a text that goes on after its first segment. *)
mk_subjob_index_tbl_WholeText(range, initalstate, mode, limit, memok) ==
  IF /\ parse_subjob_index(range, 1).rc = 0
     /\ parse_subjob_index(range, parse_subjob_index(range, 1).ep).rc # 1
  THEN [tbl |-> NULLTBL, pbserror |-> PBSE_BADATVAL]
  ELSE MkTblParsed(parse_subjob_index(range, 1), initalstate, mode, limit,
                   memok)

(* The table is made from what the one call of line 644 returned; eptr is
   not looked at. *)
mk_subjob_index_tbl(range, initalstate, mode, limit, memok) ==
  MkTblParsed(parse_subjob_index(range, 1), initalstate, mode, limit, memok)

(***************************************************************************)
(* cvt_range(pjob, state): the text left in the static buffer, as the loop *)
(* over first/next/last builds it.  The buffer is grown whenever fewer     *)
(* than 20 bytes are left, so the text is never cut.  NULL (no table) is   *)
(* the result NoText.                                                      *)
(***************************************************************************)
NoText == <<"(null)">>

(* The inner loop: the last offset of the run of entries in state that starts at first. *)
RECURSIVE RunLast(_, _, _, _)
RunLast(t, state, last, next) ==
  IF next < t.tkm_ct /\ Entry(t, next).trk_status = state
  THEN RunLast(t, state, next, next + 1)
  ELSE last

(* RunTail that never prints the step. *)
RunTail_NoStep(t, first, last) ==
  IF last > first + 1
  THEN <<"-">> \o IntToStr(SJ_TBLIDX_2_IDX(t, last))
  ELSE IF last > first
  THEN <<",">> \o IntToStr(SJ_TBLIDX_2_IDX(t, last))
  ELSE <<>>

(* RunTail that prints a run of two as a range: "last > first" written
   for "last > (first + 1)". *)
RunTail_PairAsRange(t, first, last) ==
  IF last > first
  THEN IF t.tkm_step > 1
       THEN <<"-">> \o IntToStr(SJ_TBLIDX_2_IDX(t, last))
              \o <<":">> \o IntToStr(t.tkm_step)
       ELSE <<"-">> \o IntToStr(SJ_TBLIDX_2_IDX(t, last))
  ELSE <<>>

(* What is printed after the run's first index: "-last:step", "-last",
   ",last" or nothing. *)
RunTail(t, first, last) ==
  IF last > first + 1
  THEN IF t.tkm_step > 1
       THEN <<"-">> \o IntToStr(SJ_TBLIDX_2_IDX(t, last))
              \o <<":">> \o IntToStr(t.tkm_step)
       ELSE <<"-">> \o IntToStr(SJ_TBLIDX_2_IDX(t, last))
  ELSE IF last > first
  THEN <<",">> \o IntToStr(SJ_TBLIDX_2_IDX(t, last))
  ELSE <<>>

RECURSIVE CvtLoop(_, _, _, _, _)
CvtLoop(t, state, first, b, pcomma) ==
  IF ~(first < t.tkm_ct) THEN b
  ELSE IF Entry(t, first).trk_status = state
  THEN
    LET b1   == IF pcomma THEN b \o <<",">> ELSE b
        b2   == b1 \o IntToStr(SJ_TBLIDX_2_IDX(t, first))
        last == RunLast(t, state, first, first + 1)
    IN CvtLoop(t, state, last + 1, b2 \o RunTail(t, first, last), TRUE)
  ELSE CvtLoop(t, state, first + 1, b, pcomma)

cvt_range(ptbl, state) ==
  IF ptbl = NULLTBL THEN NoText ELSE CvtLoop(ptbl[1], state, 0, <<>>, FALSE)

(***************************************************************************)
(* The lifecycle operations work on the parent job and what it owns.  A    *)
(* world w is the part of the state they read and write:                   *)
(*   w.t      the parent's ji_ajtrk                                        *)
(*   w.p      the parent job: ji_jobid, ji_state, ji_svrflags, ji_exitstat *)
(*            (ji_qs.ji_un.ji_exect.ji_exitstat), depend (JOB_ATR_depend   *)
(*            is set), remaining (JOB_ATR_array_indices_remaining: <<>>    *)
(*            unset, <<text>> set), gone (the job has been purged)         *)
(*   w.h      the calls made to the completion collaborators               *)
(*   w.b      cvt_range's static buffer                                    *)
(*   w.saves  job_save_db calls made by the running operation              *)
(*   w.fin    runs of the "all done" branch made by the running operation  *)
(***************************************************************************)
JOB_SVFLG_ArrayJob == "ArrayJob"
JOB_SVFLG_HERE == "HERE"

Dash == <<"-">>

(* A variant of SetRemaining that stores cvt_range's text as it is. *)
SetRemaining_NoSentinel(w, pnewstr) ==
  [w EXCEPT !.p.remaining = <<pnewstr>>,
            !.b = pnewstr,
            !.t[1].tkm_flags = @ \ {TKMFLG_REVAL_IND_REMAINING}]

(* update_array_indices_remaining_attr once cvt_range has returned
   pnewstr: the attribute is set to it, or to "-" when it is NULL or
   empty. *)
SetRemaining(w, pnewstr) ==
  [w EXCEPT !.p.remaining =
              <<IF pnewstr = NoText \/ CharAt(pnewstr, 1) = NUL
                THEN Dash ELSE pnewstr>>,
            !.b = pnewstr,
            !.t[1].tkm_flags = @ \ {TKMFLG_REVAL_IND_REMAINING}]

(* update_array_indices_remaining_attr(parent) *)
update_array_indices_remaining_attr(w) ==
  IF TKMFLG_REVAL_IND_REMAINING \in w.t[1].tkm_flags
  THEN SetRemaining(w, cvt_range(w.t, JOB_STATE_QUEUED))
  ELSE w

(* A variant of the sum below that leaves the Running counter out. *)
ActiveCount_NoRunning(t) ==
  t.tkm_subjsct[JOB_STATE_QUEUED] + t.tkm_subjsct[JOB_STATE_HELD]
    + t.tkm_subjsct[JOB_STATE_EXITING]

(* The sum of the four counters chk_array_doneness tests against 0. *)
ActiveCount(t) ==
  t.tkm_subjsct[JOB_STATE_QUEUED] + t.tkm_subjsct[JOB_STATE_RUNNING]
    + t.tkm_subjsct[JOB_STATE_HELD] + t.tkm_subjsct[JOB_STATE_EXITING]

(* A variant of ExitScan that goes on after a negative trk_error. *)
RECURSIVE ExitScan_NoBreak(_, _, _)
ExitScan_NoBreak(t, i, e) ==
  IF ~(i < t.tkm_ct) THEN e
  ELSE IF Entry(t, i).trk_error > 0 THEN ExitScan_NoBreak(t, i + 1, 1)
  ELSE IF Entry(t, i).trk_error < 0 THEN ExitScan_NoBreak(t, i + 1, 2)
  ELSE ExitScan_NoBreak(t, i + 1, e)

(* The loop "for (e=i=0; i<ptbl->tkm_ct; ++i)" from offset i on. *)
RECURSIVE ExitScan(_, _, _)
ExitScan(t, i, e) ==
  IF ~(i < t.tkm_ct) THEN e
  ELSE IF Entry(t, i).trk_error > 0 THEN ExitScan(t, i + 1, 1)
  ELSE IF Entry(t, i).trk_error < 0 THEN 2
  ELSE ExitScan(t, i + 1, e)

(* svr_saveorpurge_finjobhist(parent): the job is kept as history (keep),
   or purged, and then its tracking table goes with it. *)
svr_saveorpurge_finjobhist(w, keep) ==
  LET w1 == [w EXCEPT !.h.histpurge = @ + 1]
  IN IF keep THEN w1
     ELSE [w1 EXCEPT !.t = NULLTBL, !.p.gone = TRUE]

(* The steps of the "Array Job all done" branch of chk_array_doneness: the
   parent's exit status is set to e, ... *)
AllDoneExit(w, e) == [w EXCEPT !.p.ji_exitstat = e, !.fin = @ + 1]

(* A variant of AllDoneAcct without the test of the parent's state. *)
AllDoneAcct_Always(w) == [w EXCEPT !.h.acct = @ + 1, !.h.mail = @ + 1]

(* ... a parent that has begun gets its accounting record and mail, ... *)
AllDoneAcct(w) ==
  IF w.p.ji_state = JOB_STATE_BEGUN
  THEN [w EXCEPT !.h.acct = @ + 1, !.h.mail = @ + 1]
  ELSE w

(* ... its dependents are released, ... *)
AllDoneDepend(w) ==
  IF w.p.depend THEN [w EXCEPT !.h.depend = @ + 1] ELSE w

(* ... and the table is marked before the job is saved or purged. *)
AllDoneMark(w) == [w EXCEPT !.t[1].tkm_flags = @ \cup {TKMFLG_CHK_ARRAY}]

ArrayAllDone(w, keep) ==
  svr_saveorpurge_finjobhist(
    AllDoneMark(AllDoneDepend(AllDoneAcct(
      AllDoneExit(w, ExitScan(w.t[1], 0, 0))))),
    keep)

(* A variant of the guard below that ignores TKMFLG_NO_DELETE. *)
GuardFlags_NoDelete == {TKMFLG_CHK_ARRAY}

(* A variant of the guard below that ignores TKMFLG_CHK_ARRAY. *)
GuardFlags_NoLatch == {TKMFLG_NO_DELETE}

(* The flags that make chk_array_doneness return at once. *)
GuardFlags == {TKMFLG_NO_DELETE, TKMFLG_CHK_ARRAY}

(* A variant of chk_array_doneness that saves an unfinished array without
   refreshing the remaining-indices text first. *)
chk_array_doneness_NoRefresh(w, keep) ==
  IF w.t = NULLTBL THEN w
  ELSE IF w.t[1].tkm_flags \cap GuardFlags # {} THEN w
  ELSE IF ActiveCount(w.t[1]) = 0 THEN ArrayAllDone(w, keep)
  ELSE [w EXCEPT !.saves = @ + 1]

(* chk_array_doneness(parent) *)
chk_array_doneness(w, keep) ==
  IF w.t = NULLTBL THEN w
  ELSE IF w.t[1].tkm_flags \cap GuardFlags # {} THEN w
  ELSE IF ActiveCount(w.t[1]) = 0 THEN ArrayAllDone(w, keep)
  ELSE LET w1 == update_array_indices_remaining_attr(w)
       IN [w1 EXCEPT !.saves = @ + 1]

(* The index of the first c in s, 0 when there is none: strchr. *)
RECURSIVE strchr(_, _, _)
strchr(s, c, i) ==
  IF i > Len(s) THEN 0 ELSE IF s[i] = c THEN i ELSE strchr(s, c, i + 1)

(***************************************************************************)
(* is_job_array(id): what kind of job the id names, by what follows its    *)
(* first '['.                                                              *)
(***************************************************************************)
IS_ARRAY_NO == 0
IS_ARRAY_ArrayJob == -1
IS_ARRAY_Single == 2
IS_ARRAY_Range == -3

(* The loop over the digits after the bracket: pc is stepped past them. *)
RECURSIVE SkipDigits(_, _)
SkipDigits(s, pc) == IF isdigit(CharAt(s, pc)) THEN SkipDigits(s, pc + 1) ELSE pc

(* IsJobArrayAfterDigits for which a comma does not make a range. *)
IsJobArrayAfterDigits_NoComma(id, pc) ==
  IF CharAt(id, pc) = "-" THEN IS_ARRAY_Range ELSE IS_ARRAY_Single

IsJobArrayAfterDigits(id, pc) ==
  IF CharAt(id, pc) = "-" \/ CharAt(id, pc) = ","
  THEN IS_ARRAY_Range ELSE IS_ARRAY_Single

(* pc is where strchr found the '[', 0 when it found none. *)
IsJobArrayAt(id, pc) ==
  IF pc = 0 THEN IS_ARRAY_NO
  ELSE IF CharAt(id, pc + 1) = "]" THEN IS_ARRAY_ArrayJob
  ELSE IsJobArrayAfterDigits(id, SkipDigits(id, pc + 1))

is_job_array(id) == IsJobArrayAt(id, strchr(id, "[", 1))

(* mk_subjob_id(parent, offset) *)
mk_subjob_id(jobid, t, offset) ==
  LET index == IntToStr(SJ_TBLIDX_2_IDX(t, offset))
      hold  == SubSeq(jobid, strchr(jobid, "]", 1), Len(jobid))
  IN SubSeq(jobid, 1, strchr(jobid, "[", 1)) \o index \o hold

(* strncmp(a, b, len) = 0 *)
SamePrefix(a, b, len) ==
  \A k \in 1 .. len :
     \/ CharAt(a, k) = CharAt(b, k)
     \/ \E j \in 1 .. (k - 1) : CharAt(a, j) = NUL

(***************************************************************************)
(* update_subjob_state(pjob, newstate).  pjob is a subjob of the parent:   *)
(* its ji_jobid, ji_subjindx, ji_exitstat, ji_substate, and its            *)
(* stageout_status and exit_status attributes (<<>> unset, <<v>> set).     *)
(* history is svr_chk_history_conf().                                      *)
(***************************************************************************)
ExpiredError(w, pjob) ==
  [w EXCEPT !.t[1].tkm_tbl[pjob.ji_subjindx + 1].trk_error = pjob.ji_exitstat]

ExpiredStgout(w, pjob, history) ==
  IF history /\ pjob.stageout_status # <<>>
  THEN [w EXCEPT !.t[1].tkm_tbl[pjob.ji_subjindx + 1].trk_stgout =
                    pjob.stageout_status[1]]
  ELSE w

ExpiredExitstat(w, pjob, history) ==
  IF history /\ pjob.exit_status # <<>>
  THEN [w EXCEPT !.t[1].tkm_tbl[pjob.ji_subjindx + 1].trk_exitstat = 1]
  ELSE w

ExpiredSubstate(w, pjob) ==
  [w EXCEPT !.t[1].tkm_tbl[pjob.ji_subjindx + 1].trk_substate =
              pjob.ji_substate]

(* What update_subjob_state records of a subjob that has expired. *)
RecordExpired(w, pjob, newstate, history) ==
  IF newstate = JOB_STATE_EXPIRED
  THEN ExpiredSubstate(
         ExpiredExitstat(
           ExpiredStgout(ExpiredError(w, pjob), pjob, history),
           pjob, history),
         pjob)
  ELSE w

(* A variant of update_subjob_state that checks for doneness before it
   records what the expired subjob carries. *)
update_subjob_state_CheckFirst(w, pjob, newstate, history, keep) ==
  IF w.t = NULLTBL THEN w
  ELSE IF ~SamePrefix(pjob.ji_jobid, w.p.ji_jobid,
                      strchr(pjob.ji_jobid, "[", 1) - 1 - 1)
  THEN w
  ELSE IF ~keep THEN
    chk_array_doneness(
      [w EXCEPT !.t = set_subjob_tblstate(w.t, pjob.ji_subjindx, newstate)],
      keep)
  ELSE RecordExpired(
         chk_array_doneness(
           [w EXCEPT !.t = set_subjob_tblstate(w.t, pjob.ji_subjindx, newstate)],
           keep),
         pjob, newstate, history)

update_subjob_state(w, pjob, newstate, history, keep) ==
  IF w.t = NULLTBL THEN w
  ELSE IF ~SamePrefix(pjob.ji_jobid, w.p.ji_jobid,
                      strchr(pjob.ji_jobid, "[", 1) - 1 - 1)
  THEN w
  ELSE chk_array_doneness(
         RecordExpired(
           [w EXCEPT !.t = set_subjob_tblstate(w.t, pjob.ji_subjindx, newstate)],
           pjob, newstate, history),
         keep)

(***************************************************************************)
(* setup_arrayjob_attrs(pattr, pobj, mode): the action routine of the      *)
(* array_indices_submitted attribute, whose value is text.  The result is  *)
(* the world and the error returned.                                       *)
(***************************************************************************)
is_job_array_ArrayJob(id) ==
  LET pc == strchr(id, "[", 1) IN pc # 0 /\ CharAt(id, pc + 1) = "]"

(* The end of setup_arrayjob_attrs: ALTER unsets the remaining-indices
   attribute, it is set to the submitted text when unset, and the job is
   flagged an array job. *)
SetupRemaining(w, text, mode) ==
  [w EXCEPT !.p.remaining =
              IF mode = ATR_ACTION_ALTER \/ @ = <<>> THEN <<text>> ELSE @,
            !.p.ji_svrflags = @ \cup {JOB_SVFLG_ArrayJob}]

(* SetupChecked freeing array_indices_remaining before it looks at the
   job's state. *)
SetupChecked_FreeFirst(w, text, mode) ==
  IF mode = ATR_ACTION_RECOV
  THEN [w |-> [w EXCEPT !.t[1].tkm_flags = @ \cup {TKMFLG_REVAL_IND_REMAINING}],
        rc |-> PBSE_NONE]
  ELSE IF mode \notin {ATR_ACTION_ALTER, ATR_ACTION_NEW}
  THEN [w |-> w, rc |-> PBSE_BADATVAL]
  ELSE IF ~is_job_array_ArrayJob(w.p.ji_jobid)
  THEN [w |-> w, rc |-> PBSE_BADATVAL]
  ELSE IF mode = ATR_ACTION_ALTER /\ w.p.ji_state # JOB_STATE_QUEUED
  THEN [w |-> [w EXCEPT !.p.remaining = <<>>], rc |-> PBSE_MODATRRUN]
  ELSE [w |-> SetupRemaining(w, text, mode), rc |-> PBSE_NONE]

(* setup_arrayjob_attrs from its "if (mode == ATR_ACTION_RECOV)" on; w holds
   the table just built, if one was. *)
SetupChecked(w, text, mode) ==
  IF mode = ATR_ACTION_RECOV
  THEN [w |-> [w EXCEPT !.t[1].tkm_flags = @ \cup {TKMFLG_REVAL_IND_REMAINING}],
        rc |-> PBSE_NONE]
  ELSE IF mode \notin {ATR_ACTION_ALTER, ATR_ACTION_NEW}
  THEN [w |-> w, rc |-> PBSE_BADATVAL]
  ELSE IF ~is_job_array_ArrayJob(w.p.ji_jobid)
  THEN [w |-> w, rc |-> PBSE_BADATVAL]
  ELSE IF mode = ATR_ACTION_ALTER /\ w.p.ji_state # JOB_STATE_QUEUED
  THEN [w |-> w, rc |-> PBSE_MODATRRUN]
  ELSE [w |-> SetupRemaining(w, text, mode), rc |-> PBSE_NONE]

(* SetupBuilt keeping the table of a job that has one already. *)
SetupBuilt_KeepTable(w, r, text, mode) ==
  IF mode \in {ATR_ACTION_NEW, ATR_ACTION_RECOV} /\ w.t = NULLTBL
  THEN IF r.tbl = NULLTBL
       THEN [w |-> [w EXCEPT !.t = r.tbl], rc |-> r.pbserror]
       ELSE SetupChecked([w EXCEPT !.t = r.tbl], text, mode)
  ELSE SetupChecked(w, text, mode)

(* setup_arrayjob_attrs once mk_subjob_index_tbl has returned r. *)
SetupBuilt(w, r, text, mode) ==
  IF mode \in {ATR_ACTION_NEW, ATR_ACTION_RECOV}
  THEN IF r.tbl = NULLTBL
       THEN [w |-> [w EXCEPT !.t = r.tbl], rc |-> r.pbserror]
       ELSE SetupChecked([w EXCEPT !.t = r.tbl], text, mode)
  ELSE SetupChecked(w, text, mode)

setup_arrayjob_attrs(w, text, mode, limit, memok) ==
  SetupBuilt(w, mk_subjob_index_tbl(text, JOB_STATE_QUEUED, mode, limit, memok),
             text, mode)

(***************************************************************************)
(* fixup_arrayindicies(pattr, pobj, mode): pattr's value is text.          *)
(***************************************************************************)
RECURSIVE ExpireFrom(_, _)
ExpireFrom(ptbl, i) ==
  IF i < ptbl[1].tkm_ct
  THEN ExpireFrom(set_subjob_tblstate(ptbl, i, JOB_STATE_EXPIRED), i + 1)
  ELSE ptbl

(* QueueRange stepping by 1 whatever the segment's step. *)
RECURSIVE QueueRange_NoStep(_, _, _, _)
QueueRange_NoStep(ptbl, i, end, step) ==
  IF i <= end
  THEN QueueRange_NoStep(set_subjob_tblstate(ptbl,
                                             numindex_to_offset(ptbl, i),
                                             JOB_STATE_QUEUED),
                         i + 1, end, step)
  ELSE ptbl

RECURSIVE QueueRange(_, _, _, _)
QueueRange(ptbl, i, end, step) ==
  IF i <= end
  THEN QueueRange(set_subjob_tblstate(ptbl, numindex_to_offset(ptbl, i),
                                      JOB_STATE_QUEUED),
                  i + step, end, step)
  ELSE ptbl

(* The loop "while ((x = parse_subjob_index(...)) == 0)": FixupParsed is
   the loop once a call has returned r. *)
RECURSIVE FixupLoop(_, _, _)
RECURSIVE FixupParsed(_, _, _)
FixupParsed(ptbl, str, r) ==
  IF r.rc # 0 THEN ptbl
  ELSE FixupLoop(QueueRange(ptbl, r.start, r.end, r.step), str, r.ep)

FixupLoop(ptbl, str, pos) == FixupParsed(ptbl, str, parse_subjob_index(str, pos))

fixup_arrayindicies(w, text, mode) ==
  IF JOB_SVFLG_ArrayJob \notin w.p.ji_svrflags \/ w.t = NULLTBL
  THEN [w |-> w, rc |-> PBSE_BADATVAL]
  ELSE IF JOB_SVFLG_HERE \in w.p.ji_svrflags /\ mode = ATR_ACTION_NEW
  THEN [w |-> w, rc |-> PBSE_NONE]
  ELSE [w |-> [w EXCEPT !.t = FixupLoop(ExpireFrom(w.t, 0), text, 1)],
        rc |-> PBSE_NONE]

(***************************************************************************)
(* create_subjob(parent, newjid, &rc).  env tells what the allocators and  *)
(* svr_enquejob answer: idxmem (get_index_from_jid got its buffer), alloc  *)
(* (job_alloc returned a job), enq (svr_enquejob returned 0).  subj is the *)
(* number of the subjob structure returned, NULLJOB when none is.          *)
(***************************************************************************)
(* get_index_from_jid(newjid): <<>> for NULL, <<text>> for the index text. *)
get_index_from_jid(newjid, idxmem) ==
  LET pcb == strchr(newjid, "[", 1)
      pce == strchr(newjid, "]", 1)
  IN IF pcb = 0 \/ pce = 0 \/ pce <= pcb \/ ~idxmem THEN <<>>
     ELSE <<SubSeq(newjid, pcb + 1, pce - 1)>>

(* job_purge(subj) of a subjob that was linked to its parent's table. *)
job_purge(w, indx) ==
  [w EXCEPT !.t[1].tkm_tbl[indx + 1].trk_psubjob = NULLJOB]

(* A variant of CreateLinked that returns after a failed svr_enquejob
   without purging the subjob. *)
CreateLinked_NoPurge(w, indx, env, newid) ==
  IF ~env.enq
  THEN [w |-> w, rc |-> PBSE_IVALREQ, subj |-> NULLJOB]
  ELSE [w |-> w, rc |-> PBSE_NONE, subj |-> newid]

(* create_subjob once the subjob structure newid is linked to the entry at
   indx: svr_enquejob fails and the structure is purged, or it is
   returned. *)
CreateLinked(w, indx, env, newid) ==
  IF ~env.enq
  THEN [w |-> job_purge(w, indx), rc |-> PBSE_IVALREQ, subj |-> NULLJOB]
  ELSE [w |-> w, rc |-> PBSE_NONE, subj |-> newid]

(* A variant of CreateAtOffset without the test of the entry's state. *)
CreateAtOffset_NoStateCheck(w, indx, env, newid) ==
  IF indx = -1 THEN [w |-> w, rc |-> PBSE_UNKJOBID, subj |-> NULLJOB]
  ELSE IF ~env.alloc
  THEN [w |-> w, rc |-> PBSE_SYSTEM, subj |-> NULLJOB]
  ELSE CreateLinked([w EXCEPT !.t[1].tkm_tbl[indx + 1].trk_psubjob = newid],
                    indx, env, newid)

(* create_subjob once subjob_index_to_offset has returned indx. *)
CreateAtOffset(w, indx, env, newid) ==
  IF indx = -1 THEN [w |-> w, rc |-> PBSE_UNKJOBID, subj |-> NULLJOB]
  ELSE IF Entry(w.t[1], indx).trk_status # JOB_STATE_QUEUED
  THEN [w |-> w, rc |-> PBSE_BADSTATE, subj |-> NULLJOB]
  ELSE IF ~env.alloc
  THEN [w |-> w, rc |-> PBSE_SYSTEM, subj |-> NULLJOB]
  ELSE CreateLinked([w EXCEPT !.t[1].tkm_tbl[indx + 1].trk_psubjob = newid],
                    indx, env, newid)

(* create_subjob once get_index_from_jid has returned index. *)
CreateWithIndex(w, index, env, newid) ==
  IF index = <<>> THEN [w |-> w, rc |-> PBSE_IVALREQ, subj |-> NULLJOB]
  ELSE CreateAtOffset(w, subjob_index_to_offset(w.t, index[1]), env, newid)

create_subjob(w, newjid, env, newid) ==
  IF JOB_SVFLG_ArrayJob \notin w.p.ji_svrflags
  THEN [w |-> w, rc |-> PBSE_IVALREQ, subj |-> NULLJOB]
  ELSE CreateWithIndex(w, get_index_from_jid(newjid, env.idxmem), env, newid)

(***************************************************************************)
(* State.                                                                  *)
(*   ji_ajtrk  the parent array job's pointer to its tracking table        *)
(*   parent    the parent job's other fields the operations read or write  *)
(*   hooks     how often each completion collaborator has been called for  *)
(*             the parent's current table: acct (account_jobend), mail     *)
(*             (svr_mailowner), depend (depend_on_term), histpurge         *)
(*             (svr_saveorpurge_finjobhist)                                *)
(*   nalloc    number of subjob structures job_alloc has handed out        *)
(*   last      the operation that ran last, its arguments and its results  *)
(*   buf       cvt_range's static buffer                                   *)
(*   cur       the cursor of a caller parsing buf segment by segment       *)
(*   got       the indices that caller has collected                       *)
(*   prc       the return code of its last parse_subjob_index call         *)
(*   bufof     the state buf was last formatted for: <<s>>, or <<>> before *)
(*             the first cvt_range call                                    *)
(***************************************************************************)
VARIABLES ji_ajtrk, parent, hooks, nalloc, last, buf, cur, got, prc, bufof

vars == <<ji_ajtrk, parent, hooks, nalloc, last, buf, cur, got, prc, bufof>>

lifevars == <<parent, hooks, nalloc>>

codecvars == <<buf, cur, got, prc, bufof>>

(***************************************************************************)
(* Bounds of the model and the texts they generate.                        *)
(***************************************************************************)
MaxStart == 1
MaxSpan == 4
MaxStep == 3

Str1(a) == <<a>>

(* The text "X-Y" or "X-Y:Z" for numbers x, y, z. *)
DashText(x, y) == IntToStr(x) \o <<"-">> \o IntToStr(y)

DashStepText(x, y, z) == DashText(x, y) \o <<":">> \o IntToStr(z)

Scenario1Text == <<"1", "-", "1", "0">>

Scenario2Text == <<"1", "-", "1", "0", ":", "3">>

(* Range texts that parse: the tables the codec is exercised on. *)
ValidRangeTexts ==
  {DashText(x, x + d) : x \in 0 .. MaxStart, d \in 1 .. MaxSpan}
    \cup {DashStepText(x, x + d, z) :
            x \in 0 .. MaxStart, d \in 1 .. MaxSpan, z \in 1 .. MaxStep}
    \cup {IntToStr(x) : x \in 0 .. MaxStart}
    \cup {Scenario1Text, Scenario2Text}

PBS_MAX_ARRAY_JOB_DFL == 10000

ParentJid == <<"7", "[", "]", ".", "h">>

NoHooks == [acct |-> 0, mail |-> 0, depend |-> 0, histpurge |-> 0]

NewParent(svrflags, depend) ==
  [ji_jobid |-> ParentJid, ji_state |-> JOB_STATE_QUEUED,
   ji_svrflags |-> svrflags, ji_exitstat |-> 0, depend |-> depend,
   remaining |-> <<>>, gone |-> FALSE]

LifeInit ==
  /\ parent = NewParent({}, FALSE)
  /\ hooks = NoHooks
  /\ nalloc = 0

CodecInit ==
  /\ buf = <<>>
  /\ cur = 1
  /\ got = {}
  /\ prc = 0
  /\ bufof = <<>>

(***************************************************************************)
(* The codec on its own: a table built from a valid range text by          *)
(* mk_subjob_index_tbl, entries moved between states by                    *)
(* set_subjob_tblstate, then cvt_range formatting the entries of one state *)
(* into buf, and a caller parsing buf one segment per parse_subjob_index   *)
(* call until the call returns non-zero (the loop of fixup_arrayindicies). *)
(* The table is left alone once a text has been taken from it.             *)
(***************************************************************************)
CodecSetStates == {JOB_STATE_QUEUED, JOB_STATE_EXPIRED}

CodecCvtStates == {JOB_STATE_QUEUED, JOB_STATE_EXPIRED, JOB_STATE_RUNNING}

CodecSpecInit ==
  /\ \E r \in ValidRangeTexts :
       ji_ajtrk = mk_subjob_index_tbl(r, JOB_STATE_QUEUED, ATR_ACTION_RECOV,
                                      PBS_MAX_ARRAY_JOB_DFL, TRUE).tbl
  /\ last = [op |-> "mk_subjob_index_tbl"]
  /\ LifeInit
  /\ CodecInit

CodecSetState(o, s) ==
  /\ bufof = <<>>
  /\ ValidOffset(ji_ajtrk[1], o)
  /\ ji_ajtrk' = set_subjob_tblstate(ji_ajtrk, o, s)
  /\ last' = [op |-> "set_subjob_tblstate", offset |-> o, state |-> s]
  /\ UNCHANGED <<lifevars, codecvars>>

CvtRange(s) ==
  /\ ji_ajtrk # NULLTBL
  /\ buf' = cvt_range(ji_ajtrk, s)
  /\ cur' = 1
  /\ got' = {}
  /\ prc' = 0
  /\ bufof' = <<s>>
  /\ last' = [op |-> "cvt_range", state |-> s]
  /\ UNCHANGED <<ji_ajtrk, lifevars>>

(* The indices "for (i = start; i <= end; i += step)" visits. *)
RangeIndices(start, end, step) ==
  {i \in start .. end : (i - start) % step = 0}

(* The caller's loop body once parse_subjob_index has returned r. *)
ParseReturned(r) ==
  /\ prc' = r.rc
  /\ cur' = IF r.rc = -1 THEN cur ELSE r.ep
  /\ got' = IF r.rc = 0
            THEN got \cup RangeIndices(r.start, r.end, r.step)
            ELSE got
  /\ last' = [op |-> "parse_subjob_index", rc |-> r.rc]

ParseNext ==
  /\ bufof # <<>>
  /\ prc = 0
  /\ ParseReturned(parse_subjob_index(buf, cur))
  /\ UNCHANGED <<ji_ajtrk, lifevars, buf, bufof>>

(* A lookup in the table as built. *)
CodecNumindexToOffset(i) ==
  /\ last.op \in {"mk_subjob_index_tbl", "numindex_to_offset"}
  /\ i \in (ji_ajtrk[1].tkm_start - 2) .. (ji_ajtrk[1].tkm_end + 2)
  /\ last' = [op |-> "numindex_to_offset", a |-> i,
              ret |-> numindex_to_offset(ji_ajtrk, i)]
  /\ UNCHANGED <<ji_ajtrk, lifevars, codecvars>>

CodecNext ==
  \/ \E i \in -2 .. 12 : CodecNumindexToOffset(i)
  \/ \E o \in 0 .. 9, s \in CodecSetStates : CodecSetState(o, s)
  \/ \E s \in CodecCvtStates : CvtRange(s)
  \/ ParseNext

SpecCodec == CodecSpecInit /\ [][CodecNext]_vars

(* C5: numindex_to_offset maps every external index of the table to an
   offset o of the table with start + o*step = i, two different indices to
   two different offsets, and every offset is the offset of one index. *)
C5_OffsetBijection ==
  LET t == ji_ajtrk[1]
      V == {i \in t.tkm_start .. t.tkm_end : ValidIndex(t, i)}
  IN /\ \A i \in V :
          LET o == numindex_to_offset(ji_ajtrk, i)
          IN 0 <= o /\ o < t.tkm_ct /\ t.tkm_start + o * t.tkm_step = i
     /\ \A i, k \in V :
          i # k => numindex_to_offset(ji_ajtrk, i) # numindex_to_offset(ji_ajtrk, k)
     /\ \A o \in Offsets(t) :
          Cardinality({i \in V : numindex_to_offset(ji_ajtrk, i) = o}) = 1
     /\ (last.op = "numindex_to_offset" /\ last.a \in V)
        => t.tkm_start + last.ret * t.tkm_step = last.a

(* numindex_to_offset has returned offset 3 for index 10 of the table
   built from "1-10:3". *)
C5_Witness ==
  /\ last.op = "numindex_to_offset"
  /\ ji_ajtrk[1].tkm_start = 1
  /\ ji_ajtrk[1].tkm_end = 10
  /\ ji_ajtrk[1].tkm_step = 3
  /\ last.a = 10
  /\ last.ret = 3

(* The external indices of the entries of table t that are in state s. *)
IndicesInState(t, s) ==
  {SJ_TBLIDX_2_IDX(t, o) : o \in {k \in 0 .. (t.tkm_ct - 1) : Entry(t, k).trk_status = s}}

InState(t, s) == {k \in 0 .. (t.tkm_ct - 1) : Entry(t, k).trk_status = s}

(* C4: once the repeated parse of the text cvt_range returned for state s
   has stopped, it stopped with end-of-input, never a syntax error, and
   the indices collected are exactly those whose entries are in state s. *)
C4_RoundTrip ==
  (bufof # <<>> /\ prc # 0) =>
     /\ prc = 1
     /\ got = IndicesInState(ji_ajtrk[1], bufof[1])

C4_Witness ==
  /\ bufof # <<>> /\ prc = 1
  /\ ji_ajtrk[1].tkm_step = 3
  /\ Cardinality(got) = 3
  /\ Len(buf) > 3

(***************************************************************************)
(* The format the range text is documented to have: the maximal runs of    *)
(* consecutive offsets in the state, in ascending order, each written as   *)
(* one item and the items joined by commas.                                *)
(***************************************************************************)
MaximalRuns(t, s) ==
  {r \in (0 .. (t.tkm_ct - 1)) \X (0 .. (t.tkm_ct - 1)) :
     /\ r[1] <= r[2]
     /\ \A k \in r[1] .. r[2] : k \in InState(t, s)
     /\ (r[1] - 1) \notin InState(t, s)
     /\ (r[2] + 1) \notin InState(t, s)}

RunItem(t, r) ==
  LET n == IntToStr(SJ_TBLIDX_2_IDX(t, r[1]))
      m == IntToStr(SJ_TBLIDX_2_IDX(t, r[2]))
      len == r[2] - r[1] + 1
  IN IF len = 1 THEN n
     ELSE IF len = 2 THEN n \o <<",">> \o m
     ELSE IF t.tkm_step = 1 THEN n \o <<"-">> \o m
     ELSE n \o <<"-">> \o m \o <<":">> \o IntToStr(t.tkm_step)

RECURSIVE JoinRuns(_, _)
JoinRuns(t, runs) ==
  IF runs = {} THEN <<>>
  ELSE LET r == CHOOSE x \in runs : \A y \in runs : x[1] <= y[1]
           rest == runs \ {r}
       IN IF rest = {} THEN RunItem(t, r)
          ELSE RunItem(t, r) \o <<",">> \o JoinRuns(t, rest)

(* C10: the text cvt_range leaves in its buffer is the comma-joined list,
   in ascending order, of one item per maximal run of offsets in the
   requested state: "N" for a run of one, "N,M" for a run of two, "N-M"
   (step 1) or "N-M:step" (step > 1) for a run of three or more. *)
C10_FormatRuns ==
  (last.op = "cvt_range") =>
     buf = JoinRuns(ji_ajtrk[1], MaximalRuns(ji_ajtrk[1], last.state))

(* Scenario 4: the 1-10 table with offsets 0,1,2 Expired and the rest
   Queued, formatted for Queued, reads "4-10". *)
C10_Witness ==
  /\ last.op = "cvt_range" /\ last.state = JOB_STATE_QUEUED
  /\ ji_ajtrk[1].tkm_ct = 10
  /\ InState(ji_ajtrk[1], JOB_STATE_EXPIRED) = {0, 1, 2}
  /\ buf = <<"4", "-", "1", "0">>

(***************************************************************************)
(* Building a table on its own: mk_subjob_index_tbl and parse_subjob_index *)
(* applied, once per behaviour, to range texts good and bad.  A text is    *)
(* described by how it was written (form) and the numbers written into it. *)
(***************************************************************************)
MaxNum == 5
MaxArraySizeSet == 3

DashInputs ==
  [form : {"X-Y"}, x : 0 .. MaxNum, y : 0 .. MaxNum, z : {1}]
    \cup [form : {"X-Y:Z"}, x : 0 .. MaxNum, y : 0 .. MaxNum, z : -1 .. MaxStep]

OtherInputs ==
  [form : {"X"}, x : 0 .. MaxNum, y : {0}, z : {1}]
    \cup [form : {"1-10", "1-10:3", "1-3,7-9", "0-4:2,9", "a", "-", "1-",
                  "1:2", ""},
          x : {0}, y : {0}, z : {1}]

BuildInputs == DashInputs \cup OtherInputs

InputText(i) ==
  CASE i.form = "X-Y" -> DashText(i.x, i.y)
    [] i.form = "X-Y:Z" -> DashStepText(i.x, i.y, i.z)
    [] i.form = "X" -> IntToStr(i.x)
    [] i.form = "1-10" -> Scenario1Text
    [] i.form = "1-10:3" -> Scenario2Text
    [] i.form = "1-3,7-9" -> <<"1", "-", "3", ",", "7", "-", "9">>
    [] i.form = "0-4:2,9" -> <<"0", "-", "4", ":", "2", ",", "9">>
    [] i.form = "a" -> <<"a">>
    [] i.form = "-" -> <<"-">>
    [] i.form = "1-" -> <<"1", "-">>
    [] i.form = "1:2" -> <<"1", ":", "2">>
    [] i.form = "" -> <<>>

BuildStates == {JOB_STATE_QUEUED, JOB_STATE_HELD, JOB_STATE_EXPIRED}

BuildSpecInit ==
  /\ ji_ajtrk = NULLTBL
  /\ last = [op |-> "none"]
  /\ LifeInit
  /\ CodecInit

(* limit: max_array_size as the server has it, set or defaulted. *)
MkTblReturned(r, i, initalstate, mode, limit) ==
  /\ ji_ajtrk' = r.tbl
  /\ last' = [op |-> "mk_subjob_index_tbl", input |-> i,
              initalstate |-> initalstate, mode |-> mode, limit |-> limit,
              pbserror |-> r.pbserror]

MkSubjobIndexTbl ==
  /\ last.op = "none"
  /\ \E i \in BuildInputs, st \in BuildStates,
        mode \in {ATR_ACTION_NEW, ATR_ACTION_ALTER, ATR_ACTION_RECOV},
        limit \in {PBS_MAX_ARRAY_JOB_DFL, MaxArraySizeSet},
        memok \in BOOLEAN :
       MkTblReturned(mk_subjob_index_tbl(InputText(i), st, mode, limit, memok),
                     i, st, mode, limit)
  /\ UNCHANGED <<lifevars, codecvars>>

ParseSubjobIndex ==
  /\ last.op = "none"
  /\ \E i \in BuildInputs :
       last' = [op |-> "parse_subjob_index", input |-> i,
                rc |-> parse_subjob_index(InputText(i), 1).rc]
  /\ UNCHANGED <<ji_ajtrk, lifevars, codecvars>>

BuildNext ==
  \/ MkSubjobIndexTbl
  \/ ParseSubjobIndex

SpecBuild == BuildSpecInit /\ [][BuildNext]_vars

(* A dash-form segment X-Y[:Z] with X >= Y or Z < 1. *)
BadDash(i) ==
  /\ i.form \in {"X-Y", "X-Y:Z"}
  /\ (i.x >= i.y \/ i.z < 1)

(* C9: parse_subjob_index returns -1 for every dash-form segment X-Y[:Z]
   with X >= Y or Z < 1, and mk_subjob_index_tbl given such a text returns
   no table and the error PBSE_BADATVAL. *)
C9_BadDashRejected ==
  /\ (last.op = "parse_subjob_index" /\ BadDash(last.input)) => last.rc = -1
  /\ (last.op = "mk_subjob_index_tbl" /\ BadDash(last.input)) =>
       (ji_ajtrk = NULLTBL /\ last.pbserror = PBSE_BADATVAL)

(* mk_subjob_index_tbl given "5-2" has returned no table and
   PBSE_BADATVAL. *)
C9_Witness ==
  /\ last.op = "mk_subjob_index_tbl"
  /\ last.input.form = "X-Y" /\ last.input.x = 5 /\ last.input.y = 2
  /\ ji_ajtrk = NULLTBL /\ last.pbserror = PBSE_BADATVAL

(* C8: a table mk_subjob_index_tbl returns has count = (end-start+step)/step
   entries, all in the initial state it was given, histogram[initial state]
   = count and every other counter 0. *)
C8_BuildPostcondition ==
  (last.op = "mk_subjob_index_tbl" /\ ji_ajtrk # NULLTBL) =>
     LET t == ji_ajtrk[1]
     IN /\ t.tkm_ct = (t.tkm_end - t.tkm_start + t.tkm_step) \div t.tkm_step
        /\ Len(t.tkm_tbl) = t.tkm_ct
        /\ \A o \in 0 .. (t.tkm_ct - 1) :
             Entry(t, o).trk_status = last.initalstate
        /\ \A s \in AllJobStates :
             t.tkm_subjsct[s] = IF s = last.initalstate THEN t.tkm_ct ELSE 0

(***************************************************************************)
(* The array job's life.  A job structure starts without a table;          *)
(* setup_arrayjob_attrs builds it when the job is created (NEW) and builds *)
(* it again when the job is read back from the database (RECOV); the       *)
(* server's request handlers then call the operations in any order, one at *)
(* a time (the server is single-threaded).                                 *)
(***************************************************************************)
Text3 == <<"3">>
Text14s3 == <<"1", "-", "4", ":", "3">>
Text52 == <<"5", "-", "2">>
Text03 == <<"0", "-", "3">>

LifeTexts == {Text3, Text14s3, Text52}

FixupTexts == {Dash, <<"4">>, <<"1", ",", "4">>, Text03}

LifeStates == {JOB_STATE_QUEUED, JOB_STATE_RUNNING, JOB_STATE_EXPIRED}

(* What a subjob carries when its state is updated. *)
SubjobData ==
  {[ji_exitstat |-> 0, stageout_status |-> <<>>, exit_status |-> <<>>,
    ji_substate |-> JOB_SUBSTATE_FINISHED],
   [ji_exitstat |-> 1, stageout_status |-> <<>>, exit_status |-> <<>>,
    ji_substate |-> JOB_SUBSTATE_FINISHED]}

World == [t |-> ji_ajtrk, p |-> parent, h |-> hooks, b |-> buf,
          saves |-> 0, fin |-> 0]

Commit(w) ==
  /\ ji_ajtrk' = w.t
  /\ parent' = w.p
  /\ hooks' = w.h
  /\ buf' = w.b

(* What last records of an operation: its name, its integer and state
   arguments, the error code and integer it returned, and the runs of the
   "all done" branch and the job_save_db calls it made. *)
Did(op, a, st, rc, ret, w) ==
  [op |-> op, a |-> a, st |-> st, rc |-> rc, ret |-> ret,
   fin |-> w.fin, saves |-> w.saves]

(* An operation that ran no "all done" branch and saved nothing. *)
Idle == [fin |-> 0, saves |-> 0]

(* The state once operation op has returned rc and left the world w. *)
Returned(op, a, st, rc, w) ==
  /\ Commit(w)
  /\ last' = Did(op, a, st, rc, 0, w)

Init ==
  /\ ji_ajtrk = NULLTBL
  /\ parent = NewParent({JOB_SVFLG_HERE}, TRUE)
  /\ hooks = NoHooks
  /\ nalloc = 0
  /\ last = Did("none", 0, 0, PBSE_NONE, 0, Idle)
  /\ CodecInit

(* What the server and malloc answer while a table is built: the default
   size limit and memory, a small limit, no memory. *)
EnvDflt == [limit |-> PBS_MAX_ARRAY_JOB_DFL, memok |-> TRUE]

SetupEnvs ==
  {EnvDflt,
   [limit |-> 1, memok |-> TRUE],
   [limit |-> PBS_MAX_ARRAY_JOB_DFL, memok |-> FALSE]}

(* The calls the server makes: every text where there is memory and room,
   one text where there is not. *)
SetupCalls ==
  {[text |-> x, env |-> EnvDflt] : x \in LifeTexts}
    \cup {[text |-> Text14s3, env |-> e] : e \in SetupEnvs}

(* A subjob's exit status matters when it is expiring. *)
UpdateCalls ==
  {[d |-> d, s |-> JOB_STATE_EXPIRED] : d \in SubjobData}
    \cup {[d |-> CHOOSE d \in SubjobData : d.ji_exitstat = 0, s |-> s] :
             s \in LifeStates \ {JOB_STATE_EXPIRED}}

(* The state once setup_arrayjob_attrs has returned r; the collaborators'
   calls are counted for the table it built. *)
SetupReturned(r, mode) ==
  /\ ji_ajtrk' = r.w.t
  /\ parent' = r.w.p
  /\ hooks' = IF mode = ATR_ACTION_ALTER THEN hooks ELSE NoHooks
  /\ last' = Did("setup_arrayjob_attrs", 0, 0, r.rc, 0, r.w)

SetupArrayjobAttrs(text, mode, env) ==
  /\ ~parent.gone
  /\ mode = ATR_ACTION_NEW => ji_ajtrk = NULLTBL
  /\ mode = ATR_ACTION_ALTER => ji_ajtrk # NULLTBL
  /\ SetupReturned(setup_arrayjob_attrs(World, text, mode, env.limit, env.memok),
                   mode)
  /\ UNCHANGED <<nalloc, codecvars>>

(* svr_setjobstate on the parent: it is Begun once a subjob has run. *)
SetParentState(s) ==
  /\ ~parent.gone
  /\ ji_ajtrk # NULLTBL
  /\ parent.ji_state = JOB_STATE_QUEUED /\ s = JOB_STATE_BEGUN
  /\ parent' = [parent EXCEPT !.ji_state = s]
  /\ last' = Did("svr_setjobstate", 0, s, PBSE_NONE, 0, Idle)
  /\ UNCHANGED <<ji_ajtrk, hooks, nalloc, codecvars>>

SetSubjobTblstate(o, s) ==
  /\ ~parent.gone
  /\ ji_ajtrk # NULLTBL
  /\ ValidOffset(ji_ajtrk[1], o)
  /\ ji_ajtrk' = set_subjob_tblstate(ji_ajtrk, o, s)
  /\ last' = Did("set_subjob_tblstate", o, s, PBSE_NONE, 0, Idle)
  /\ UNCHANGED <<lifevars, codecvars>>

(* history: svr_chk_history_conf(), which also decides whether the
   finished parent is kept as history. *)
UpdateSubjobState(o, d, s, history) ==
  /\ ~parent.gone
  /\ ji_ajtrk # NULLTBL
  /\ ValidOffset(ji_ajtrk[1], o)
  /\ Returned("update_subjob_state", o, s, PBSE_NONE,
              update_subjob_state(
                World,
                [ji_jobid |-> mk_subjob_id(parent.ji_jobid, ji_ajtrk[1], o),
                 ji_subjindx |-> o, ji_exitstat |-> d.ji_exitstat,
                 stageout_status |-> d.stageout_status,
                 exit_status |-> d.exit_status,
                 ji_substate |-> d.ji_substate],
                s, history, history))
  /\ UNCHANGED <<nalloc, cur, got, prc, bufof>>

ChkArrayDoneness(history) ==
  /\ ~parent.gone
  /\ ji_ajtrk # NULLTBL
  /\ Returned("chk_array_doneness", 0, 0, PBSE_NONE,
              chk_array_doneness(World, history))
  /\ UNCHANGED <<nalloc, cur, got, prc, bufof>>

UpdateArrayIndicesRemainingAttr ==
  /\ ~parent.gone
  /\ ji_ajtrk # NULLTBL
  /\ Returned("update_array_indices_remaining_attr", 0, 0, PBSE_NONE,
              update_array_indices_remaining_attr(World))
  /\ UNCHANGED <<nalloc, cur, got, prc, bufof>>

FixupReturned(r) == Returned("fixup_arrayindicies", 0, 0, r.rc, r.w)

FixupArrayindicies(text, mode) ==
  /\ ~parent.gone
  /\ FixupReturned(fixup_arrayindicies(World, text, mode))
  /\ UNCHANGED <<nalloc, cur, got, prc, bufof>>

Next ==
  \/ \E c \in SetupCalls, mode \in {ATR_ACTION_NEW, ATR_ACTION_RECOV} :
       SetupArrayjobAttrs(c.text, mode, c.env)
  \/ SetupArrayjobAttrs(Text3, ATR_ACTION_ALTER, EnvDflt)
  \/ SetParentState(JOB_STATE_BEGUN)
  \/ \E o \in 0 .. 9, s \in LifeStates : SetSubjobTblstate(o, s)
  \/ \E o \in 0 .. 9, c \in UpdateCalls, history \in BOOLEAN :
       UpdateSubjobState(o, c.d, c.s, history)
  \/ \E history \in BOOLEAN : ChkArrayDoneness(history)
  \/ UpdateArrayIndicesRemainingAttr
  \/ \E text \in FixupTexts : FixupArrayindicies(text, ATR_ACTION_ALTER)
  \/ FixupArrayindicies(Dash, ATR_ACTION_NEW)

Spec == Init /\ [][Next]_vars

NumInState(t, s) == Cardinality({k \in Offsets(t) : Entry(t, k).trk_status = s})

NumActive(t) ==
  Cardinality({k \in Offsets(t) : Entry(t, k).trk_status \in ActiveStates})

(* C1: whenever the job has a table, each counter tkm_subjsct[s] equals the
   number of entries whose trk_status is s, after every operation. *)
C1_HistogramInvariant ==
  ji_ajtrk # NULLTBL =>
    \A s \in AllJobStates :
       ji_ajtrk[1].tkm_subjsct[s] = NumInState(ji_ajtrk[1], s)

(* fixup_arrayindicies has expired every entry and queued one back. *)
C1_Witness ==
  /\ last.op = "fixup_arrayindicies"
  /\ ji_ajtrk # NULLTBL
  /\ ji_ajtrk[1].tkm_ct = 2
  /\ ji_ajtrk[1].tkm_subjsct[JOB_STATE_QUEUED] = 1
  /\ ji_ajtrk[1].tkm_subjsct[JOB_STATE_EXPIRED] = 1
  /\ Entry(ji_ajtrk[1], 1).trk_status = JOB_STATE_QUEUED

(* C2: when chk_array_doneness is called right after chk_array_doneness on
   a parent none of whose entries is Queued, Running, Held or Exiting, the
   second call changes nothing, saves nothing and runs no collaborator, and
   the two calls leave every completion collaborator called at most once
   and svr_saveorpurge_finjobhist exactly once for this table. *)
C2_DonenessLatch ==
  [][(/\ last.op = "chk_array_doneness"
      /\ last'.op = "chk_array_doneness"
      /\ ji_ajtrk # NULLTBL
      /\ NumActive(ji_ajtrk[1]) = 0)
     => /\ last'.fin = 0
        /\ last'.saves = 0
        /\ ji_ajtrk' = ji_ajtrk
        /\ parent' = parent
        /\ hooks' = hooks
        /\ hooks'.histpurge = 1
        /\ hooks'.acct <= 1 /\ hooks'.mail <= 1 /\ hooks'.depend <= 1]_vars

(* chk_array_doneness has just returned at the latch of a finished array
   whose completion collaborators have each run once. *)
C2_Witness ==
  /\ last.op = "chk_array_doneness"
  /\ last.fin = 0
  /\ ji_ajtrk # NULLTBL
  /\ NumActive(ji_ajtrk[1]) = 0
  /\ TKMFLG_CHK_ARRAY \in ji_ajtrk[1].tkm_flags
  /\ hooks = [acct |-> 1, mail |-> 1, depend |-> 1, histpurge |-> 1]

(* C3: in every update_subjob_state call the "all done" branch runs at most
   once, and only when the state change leaves no entry Queued, Running,
   Held or Exiting; on an array not finalized before it runs in the call
   whose state change takes the last such entry away; and when it has run,
   svr_saveorpurge_finjobhist has been called once for the table and, no
   entry of the table holding an error, the parent's exit status is 0. *)
C3_FinalizationTiming ==
  [][last'.op = "update_subjob_state" =>
       LET moved == set_subjob_tblstate(ji_ajtrk, last'.a, last'.st)[1]
       IN /\ last'.fin <= 1
          /\ last'.fin = 1 => NumActive(moved) = 0 /\ hooks'.histpurge = 1
          /\ (/\ NumActive(ji_ajtrk[1]) > 0
              /\ NumActive(moved) = 0
              /\ TKMFLG_CHK_ARRAY \notin ji_ajtrk[1].tkm_flags)
             => last'.fin = 1
          /\ (/\ last'.fin = 1
              /\ ji_ajtrk' # NULLTBL
              /\ \A k \in Offsets(moved) :
                   Entry(ji_ajtrk'[1], k).trk_error = 0)
             => parent'.ji_exitstat = 0]_vars

(* update_subjob_state has expired the last active entry of a two-entry
   table without errors, and the "all done" branch ran in that call. *)
C3_Witness ==
  /\ last.op = "update_subjob_state"
  /\ last.fin = 1
  /\ ji_ajtrk # NULLTBL
  /\ ji_ajtrk[1].tkm_ct = 2
  /\ \A k \in Offsets(ji_ajtrk[1]) :
       /\ Entry(ji_ajtrk[1], k).trk_status = JOB_STATE_EXPIRED
       /\ Entry(ji_ajtrk[1], k).trk_error = 0
  /\ parent.ji_exitstat = 0
  /\ hooks.histpurge = 1
  /\ hooks.acct = 1

(* C7: right after set_subjob_tblstate(parent, o, s) with a valid offset,
   the same call again leaves the counters, every entry and the flags as
   they are. *)
C7_IdempotentSetState ==
  last.op = "set_subjob_tblstate" =>
    set_subjob_tblstate(ji_ajtrk, last.a, last.st) = ji_ajtrk

(* set_subjob_tblstate has moved entry 1 of a two-entry table from Queued
   to Running. *)
C7_Witness ==
  /\ last.op = "set_subjob_tblstate"
  /\ last.a = 1
  /\ last.st = JOB_STATE_RUNNING
  /\ ji_ajtrk[1].tkm_ct = 2
  /\ Entry(ji_ajtrk[1], 1).trk_status = JOB_STATE_RUNNING
  /\ ji_ajtrk[1].tkm_subjsct[JOB_STATE_RUNNING] = 1
  /\ ji_ajtrk[1].tkm_subjsct[JOB_STATE_QUEUED] = 1

(***************************************************************************)
(* Indices and subjobs: a parent whose table setup_arrayjob_attrs built    *)
(* from a range text, the server looking indices up with                   *)
(* numindex_to_offset, creating subjobs with create_subjob and starting    *)
(* the subjobs it created.                                                 *)
(***************************************************************************)
MaxAlloc == 2

(* The job id of subjob i of the parent. *)
SubjobJid(i) == <<"7", "[">> \o IntToStr(i) \o <<"]", ".", "h">>

(* What get_index_from_jid's malloc, job_alloc and svr_enquejob answer. *)
CreateEnvs ==
  {[idxmem |-> TRUE, alloc |-> TRUE, enq |-> TRUE],
   [idxmem |-> FALSE, alloc |-> TRUE, enq |-> TRUE],
   [idxmem |-> TRUE, alloc |-> FALSE, enq |-> TRUE],
   [idxmem |-> TRUE, alloc |-> TRUE, enq |-> FALSE]}

(* The indices the server is asked about: those of the table's range and
   two on either side. *)
AskedIndices(t) == (t.tkm_start - 2) .. (t.tkm_end + 2)

(* The tables subjobs are created in, as built when the job is queued
   (NEW) and, one of them, as built when it is read back (RECOV). *)
Text02 == <<"0", "-", "2">>
Text15s2 == <<"1", "-", "5", ":", "2">>

IndexBuilds ==
  {[text |-> x, mode |-> ATR_ACTION_NEW] : x \in {Text02, Text15s2, Text14s3, Text3}}
    \cup {[text |-> Text14s3, mode |-> ATR_ACTION_RECOV]}

IndexBuilt(x) ==
  /\ ji_ajtrk = x.w.t
  /\ parent = x.w.p

IndexInit ==
  /\ \E c \in IndexBuilds :
       IndexBuilt(setup_arrayjob_attrs(
                    [t |-> NULLTBL, p |-> NewParent({JOB_SVFLG_HERE}, FALSE),
                     h |-> NoHooks, b |-> <<>>, saves |-> 0, fin |-> 0],
                    c.text, c.mode, PBS_MAX_ARRAY_JOB_DFL, TRUE))
  /\ hooks = NoHooks
  /\ nalloc = 0
  /\ last = [op |-> "setup_arrayjob_attrs"]
  /\ CodecInit

NumindexToOffset(i) ==
  /\ i \in AskedIndices(ji_ajtrk[1])
  /\ last' = [op |-> "numindex_to_offset", a |-> i,
              ret |-> numindex_to_offset(ji_ajtrk, i)]
  /\ UNCHANGED <<ji_ajtrk, lifevars, codecvars>>

(* The state once create_subjob has returned r: job_alloc handed a
   structure out when a subjob is returned and when it was purged after
   svr_enquejob failed. *)
CreateReturned(r, i, env) ==
  /\ ji_ajtrk' = r.w.t
  /\ nalloc' = IF r.subj # NULLJOB \/ (r.rc = PBSE_IVALREQ /\ ~env.enq)
               THEN nalloc + 1 ELSE nalloc
  /\ last' = [op |-> "create_subjob", a |-> i, env |-> env,
              rc |-> r.rc, ret |-> r.subj]

(* job_alloc has MaxAlloc job structures to hand out. *)
CreateSubjob(i, env) ==
  /\ i \in AskedIndices(ji_ajtrk[1])
  /\ env.alloc => nalloc < MaxAlloc
  /\ CreateReturned(create_subjob(World, SubjobJid(i), env, nalloc + 1),
                    i, env)
  /\ UNCHANGED <<parent, hooks, codecvars>>

(* A subjob that was created starts to run: svr_setjobstate on the subjob
   ends in set_subjob_tblstate on its entry. *)
RunSubjob(o) ==
  /\ ValidOffset(ji_ajtrk[1], o)
  /\ Entry(ji_ajtrk[1], o).trk_psubjob # NULLJOB
  /\ Entry(ji_ajtrk[1], o).trk_status = JOB_STATE_QUEUED
  /\ ji_ajtrk' = set_subjob_tblstate(ji_ajtrk, o, JOB_STATE_RUNNING)
  /\ last' = [op |-> "set_subjob_tblstate", a |-> o]
  /\ UNCHANGED <<lifevars, codecvars>>

(* The states an entry is moved to besides Running: a queued subjob is
   held, a running one is exiting and then expired (svr_setjobstate and
   the hold and delete requests end in set_subjob_tblstate). *)
IndexMoves ==
  {<<JOB_STATE_QUEUED, JOB_STATE_HELD>>,
   <<JOB_STATE_RUNNING, JOB_STATE_EXITING>>,
   <<JOB_STATE_EXITING, JOB_STATE_EXPIRED>>}

MoveSubjob(o, m) ==
  /\ ValidOffset(ji_ajtrk[1], o)
  /\ Entry(ji_ajtrk[1], o).trk_status = m[1]
  /\ ji_ajtrk' = set_subjob_tblstate(ji_ajtrk, o, m[2])
  /\ last' = [op |-> "set_subjob_tblstate", a |-> o]
  /\ UNCHANGED <<lifevars, codecvars>>

IndexNext ==
  \/ \E i \in -2 .. 7 : NumindexToOffset(i)
  \/ \E i \in -2 .. 7, env \in CreateEnvs : CreateSubjob(i, env)
  \/ \E o \in 0 .. 9 : RunSubjob(o)
  \/ \E o \in 0 .. 9, m \in IndexMoves : MoveSubjob(o, m)

SpecIndex == IndexInit /\ [][IndexNext]_vars

(* C6: numindex_to_offset returns -1 for every index below start, above
   end or off the step, and create_subjob on an array parent, given a job
   id with such an index (and memory for the index text), returns no
   subjob, sets PBSE_UNKJOBID, allocates nothing and leaves the table as
   it is. *)
C6_NotFound ==
  /\ [](\A i \in AskedIndices(ji_ajtrk[1]) :
          ~ValidIndex(ji_ajtrk[1], i) => numindex_to_offset(ji_ajtrk, i) = -1)
  /\ [][(/\ last'.op = "create_subjob"
         /\ ~ValidIndex(ji_ajtrk[1], last'.a)
         /\ JOB_SVFLG_ArrayJob \in parent.ji_svrflags
         /\ last'.env.idxmem)
        => /\ last'.rc = PBSE_UNKJOBID
           /\ last'.ret = NULLJOB
           /\ nalloc' = nalloc
           /\ ji_ajtrk' = ji_ajtrk]_vars

(* create_subjob has refused index 2 of the table 1-4:3, between two of
   its indices, although job_alloc and svr_enquejob would have succeeded
   and one subjob had been created before. *)
C6_Witness ==
  /\ last.op = "create_subjob"
  /\ last.a = 2
  /\ last.rc = PBSE_UNKJOBID
  /\ last.env = [idxmem |-> TRUE, alloc |-> TRUE, enq |-> TRUE]
  /\ ji_ajtrk[1].tkm_start = 1
  /\ ji_ajtrk[1].tkm_end = 4
  /\ ji_ajtrk[1].tkm_step = 3
  /\ nalloc = 1

(* The offset of external index i in table t. *)
OffsetOf(t, i) == (i - t.tkm_start) \div t.tkm_step

(* C11: create_subjob on an array parent, for an index of the table whose
   entry is in a state other than Queued, returns no subjob and
   PBSE_BADSTATE, allocates nothing and leaves the table (every entry's
   state and subjob link, the histogram and the flags) as it is. *)
C11_BadState ==
  [][(/\ last'.op = "create_subjob"
      /\ JOB_SVFLG_ArrayJob \in parent.ji_svrflags
      /\ last'.env.idxmem
      /\ ValidIndex(ji_ajtrk[1], last'.a)
      /\ Entry(ji_ajtrk[1], OffsetOf(ji_ajtrk[1], last'.a)).trk_status
           # JOB_STATE_QUEUED)
     => /\ last'.rc = PBSE_BADSTATE
        /\ last'.ret = NULLJOB
        /\ nalloc' = nalloc
        /\ ji_ajtrk' = ji_ajtrk]_vars

(* Scenario 6: create_subjob has refused index 4 of the table 1-4:3, whose
   entry is Running and linked to the subjob created before. *)
C11_Witness ==
  /\ last.op = "create_subjob"
  /\ last.a = 4
  /\ last.rc = PBSE_BADSTATE
  /\ last.env = [idxmem |-> TRUE, alloc |-> TRUE, enq |-> TRUE]
  /\ ji_ajtrk[1].tkm_start = 1
  /\ ji_ajtrk[1].tkm_step = 3
  /\ Entry(ji_ajtrk[1], 1).trk_status = JOB_STATE_RUNNING
  /\ Entry(ji_ajtrk[1], 1).trk_psubjob = 1

(* C12: once a create_subjob call for an index has succeeded (the entry is
   linked to the subjob it returned), no further create_subjob call for
   that index returns a subjob or changes the entry's link. *)
C12_SingleMaterialization ==
  [][(/\ last'.op = "create_subjob"
      /\ ValidIndex(ji_ajtrk[1], last'.a)
      /\ Entry(ji_ajtrk[1], OffsetOf(ji_ajtrk[1], last'.a)).trk_psubjob
           # NULLJOB)
     => /\ last'.ret = NULLJOB
        /\ Entry(ji_ajtrk'[1], OffsetOf(ji_ajtrk[1], last'.a)).trk_psubjob
             = Entry(ji_ajtrk[1], OffsetOf(ji_ajtrk[1], last'.a)).trk_psubjob]_vars

(* C13: when svr_enquejob fails in create_subjob, create_subjob returns no
   subjob and PBSE_IVALREQ, and the entry of that index is still Queued
   and its trk_psubjob is unset. *)
C13_EnqueueFailure ==
  [][(/\ last'.op = "create_subjob"
      /\ ~last'.env.enq
      /\ JOB_SVFLG_ArrayJob \in parent.ji_svrflags
      /\ ValidIndex(ji_ajtrk[1], last'.a)
      /\ Entry(ji_ajtrk[1], OffsetOf(ji_ajtrk[1], last'.a)).trk_status
           = JOB_STATE_QUEUED)
     => /\ last'.rc = PBSE_IVALREQ
        /\ last'.ret = NULLJOB
        /\ Entry(ji_ajtrk'[1], OffsetOf(ji_ajtrk[1], last'.a)).trk_status
             = JOB_STATE_QUEUED
        /\ Entry(ji_ajtrk'[1], OffsetOf(ji_ajtrk[1], last'.a)).trk_psubjob
             = NULLJOB
        /\ ji_ajtrk'[1].tkm_subjsct = ji_ajtrk[1].tkm_subjsct]_vars

(* svr_enquejob has failed for index 5 of the table 1-5:2 after job_alloc
   had handed out a structure: the entry is Queued and unlinked. *)
C13_Witness ==
  /\ last.op = "create_subjob"
  /\ last.a = 5
  /\ last.env = [idxmem |-> TRUE, alloc |-> TRUE, enq |-> FALSE]
  /\ last.rc = PBSE_IVALREQ
  /\ nalloc = 1
  /\ ji_ajtrk[1].tkm_start = 1
  /\ ji_ajtrk[1].tkm_step = 2
  /\ Entry(ji_ajtrk[1], 2).trk_status = JOB_STATE_QUEUED
  /\ Entry(ji_ajtrk[1], 2).trk_psubjob = NULLJOB

(***************************************************************************)
(* Setting the submitted-indices attribute: setup_arrayjob_attrs called on *)
(* one job up to MaxSetupCalls times, in every mode, with range texts good *)
(* and bad, max_array_size set or defaulted, memory or none; between two   *)
(* calls the job may begin.                                                *)
(***************************************************************************)
MaxSetupCalls == 2

(* One range more than the default limit allows. *)
TextOverDflt == DashText(1, PBS_MAX_ARRAY_JOB_DFL + 1)

(* One range more than the limit set in these runs allows. *)
TextOverSet == DashText(0, MaxArraySizeSet)

TextBad == <<"a">>

SetupTexts == {Text3, Text14s3, TextOverSet, Text52, TextBad, TextOverDflt}

(* The calls made: a table of TextOverDflt's size is never built. *)
SetupInputs ==
  {c \in [text : SetupTexts,
          mode : {ATR_ACTION_NEW, ATR_ACTION_ALTER, ATR_ACTION_RECOV},
          limit : {PBS_MAX_ARRAY_JOB_DFL, MaxArraySizeSet},
          memok : BOOLEAN] :
     c.text = TextOverDflt =>
       c.mode # ATR_ACTION_RECOV /\ c.limit = PBS_MAX_ARRAY_JOB_DFL}

SetupSpecInit ==
  /\ ji_ajtrk = NULLTBL
  /\ parent = NewParent({JOB_SVFLG_HERE}, FALSE)
  /\ hooks = NoHooks
  /\ nalloc = 0
  /\ last = [op |-> "none", n |-> 0]
  /\ CodecInit

(* The state once the call c has returned r; n counts the calls. *)
SetupCallReturned(r, c) ==
  /\ ji_ajtrk' = r.w.t
  /\ parent' = r.w.p
  /\ last' = [op |-> "setup_arrayjob_attrs", n |-> last.n + 1, c |-> c,
              rc |-> r.rc]

(* The attribute is altered on a job that is an array job already. *)
SetupCall ==
  /\ last.n < MaxSetupCalls
  /\ \E c \in SetupInputs :
       /\ c.mode = ATR_ACTION_ALTER => ji_ajtrk # NULLTBL
       /\ SetupCallReturned(
            setup_arrayjob_attrs(World, c.text, c.mode, c.limit, c.memok), c)
  /\ UNCHANGED <<hooks, nalloc, codecvars>>

(* svr_setjobstate on the parent once a subjob has run. *)
SetupBegun ==
  /\ ji_ajtrk # NULLTBL
  /\ parent.ji_state = JOB_STATE_QUEUED
  /\ last.op = "setup_arrayjob_attrs"
  /\ parent' = [parent EXCEPT !.ji_state = JOB_STATE_BEGUN]
  /\ last' = [op |-> "svr_setjobstate", n |-> last.n]
  /\ UNCHANGED <<ji_ajtrk, hooks, nalloc, codecvars>>

SetupNext ==
  \/ SetupCall
  \/ SetupBegun

SpecSetup == SetupSpecInit /\ [][SetupNext]_vars

(* The number of indices a well-formed range text denotes. *)
CountOf(text) == parse_subjob_index(text, 1).count

WellFormed(text) == parse_subjob_index(text, 1).rc = 0

(* C14: setup_arrayjob_attrs in mode ATR_ACTION_NEW, given a well-formed
   range whose count exceeds the limit (max_array_size when set,
   PBS_MAX_ARRAY_JOB_DFL when not), returns PBSE_MaxArraySize and leaves the
   job without a table; given the same range in mode ATR_ACTION_RECOV (and
   memory for the table) it returns PBSE_NONE and the job has a table of
   that count. *)
C14_LimitOnCreateNotRecov ==
  (/\ last.op = "setup_arrayjob_attrs"
   /\ WellFormed(last.c.text)
   /\ CountOf(last.c.text) > last.c.limit)
  => /\ last.c.mode = ATR_ACTION_NEW
          => (last.rc = PBSE_MaxArraySize /\ ji_ajtrk = NULLTBL)
     /\ (last.c.mode = ATR_ACTION_RECOV /\ last.c.memok)
          => /\ last.rc = PBSE_NONE
             /\ ji_ajtrk # NULLTBL
             /\ ji_ajtrk[1].tkm_ct = CountOf(last.c.text)
             /\ Len(ji_ajtrk[1].tkm_tbl) = CountOf(last.c.text)

(* The second call, in recovery mode, has built the table of a range one
   larger than max_array_size allows. *)
C14_Witness ==
  /\ last.op = "setup_arrayjob_attrs"
  /\ last.n = 2
  /\ last.c.mode = ATR_ACTION_RECOV
  /\ last.c.text = TextOverSet
  /\ last.c.limit = MaxArraySizeSet
  /\ last.rc = PBSE_NONE
  /\ ji_ajtrk # NULLTBL
  /\ ji_ajtrk[1].tkm_ct = MaxArraySizeSet + 1

(* C15: setup_arrayjob_attrs in mode ATR_ACTION_ALTER on a queued array
   job, given a well-formed range whose count exceeds the limit, returns
   PBSE_MaxArraySize. *)
C15_LimitOnAlter ==
  (/\ last.op = "setup_arrayjob_attrs"
   /\ last.c.mode = ATR_ACTION_ALTER
   /\ parent.ji_state = JOB_STATE_QUEUED
   /\ WellFormed(last.c.text)
   /\ CountOf(last.c.text) > last.c.limit)
  => last.rc = PBSE_MaxArraySize

(* C16: setup_arrayjob_attrs given a range text that does not parse
   returns an error and leaves the job as it was: the same table (entries,
   histogram, flags) and the same job fields. *)
C16_SyntaxErrorMutatesNothing ==
  [][(/\ last'.op = "setup_arrayjob_attrs"
      /\ ~WellFormed(last'.c.text))
     => /\ last'.rc # PBSE_NONE
        /\ ji_ajtrk' = ji_ajtrk
        /\ parent' = parent]_vars

(* update_array_indices_remaining_attr is recomputing the attribute of a
   table none of whose entries is Queued. *)
RecomputesEmpty ==
  /\ last'.op = "update_array_indices_remaining_attr"
  /\ TKMFLG_REVAL_IND_REMAINING \in ji_ajtrk[1].tkm_flags
  /\ NumInState(ji_ajtrk[1], JOB_STATE_QUEUED) = 0

(* C17: when no entry is Queued the remaining-indices text is "-", never
   the empty string, and parse_subjob_index accepts that text without a
   syntax error (it does not return -1). *)
C17_EmptySentinel ==
  [][RecomputesEmpty
     => /\ parent'.remaining = <<Dash>>
        /\ parse_subjob_index(parent'.remaining[1], 1).rc # -1]_vars

(* C17 as the code has it: cvt_range returns the empty string, the
   attribute is set to "-" in its place, parse_subjob_index returns -1 for
   "-", and the loop of fixup_arrayindicies over "-" queues no entry. *)
C17_EmptySentinelAmended ==
  [][RecomputesEmpty
     => /\ buf' = <<>>
        /\ parent'.remaining = <<Dash>>
        /\ parse_subjob_index(parent'.remaining[1], 1).rc = -1
        /\ NumInState(FixupLoop(ExpireFrom(ji_ajtrk', 0),
                                parent'.remaining[1], 1)[1],
                      JOB_STATE_QUEUED) = 0]_vars

(* The attribute of the table 1-4:3, both entries Running, has been
   recomputed: it reads "-" and the buffer is empty. *)
C17_Witness ==
  /\ last.op = "update_array_indices_remaining_attr"
  /\ ji_ajtrk # NULLTBL
  /\ ji_ajtrk[1].tkm_ct = 2
  /\ ji_ajtrk[1].tkm_subjsct[JOB_STATE_RUNNING] = 2
  /\ TKMFLG_REVAL_IND_REMAINING \notin ji_ajtrk[1].tkm_flags
  /\ parent.remaining = <<Dash>>
  /\ buf = <<>>

(***************************************************************************)
(* Doneness: an array job of two or three subjobs, with or without the     *)
(* depend attribute, whose subjobs run and expire with exit statuses from  *)
(* -MaxExit to MaxExit or are expired by set_subjob_tblstate alone; the    *)
(* parent begins when the server says so, and chk_array_doneness is called *)
(* by update_subjob_state and on its own.                                  *)
(***************************************************************************)
MaxExit == 1

DoneTexts == {Text02, Text14s3}

DoneData ==
  {[ji_exitstat |-> x, stageout_status |-> <<>>, exit_status |-> <<>>,
    ji_substate |-> JOB_SUBSTATE_FINISHED] : x \in (-MaxExit) .. MaxExit}

(* The job once setup_arrayjob_attrs has built its table. *)
DoneBuilt(x) ==
  /\ ji_ajtrk = x.w.t
  /\ parent = x.w.p

DoneInit ==
  /\ \E text \in DoneTexts, depend \in BOOLEAN :
       DoneBuilt(setup_arrayjob_attrs(
                   [t |-> NULLTBL, p |-> NewParent({JOB_SVFLG_HERE}, depend),
                    h |-> NoHooks, b |-> <<>>, saves |-> 0, fin |-> 0],
                   text, ATR_ACTION_NEW, PBS_MAX_ARRAY_JOB_DFL, TRUE))
  /\ hooks = NoHooks
  /\ nalloc = 0
  /\ last = Did("setup_arrayjob_attrs", 0, 0, PBSE_NONE, 0, Idle)
  /\ CodecInit

(* A queued subjob runs. *)
DoneRun(o, history) ==
  /\ ji_ajtrk # NULLTBL
  /\ ValidOffset(ji_ajtrk[1], o)
  /\ Entry(ji_ajtrk[1], o).trk_status = JOB_STATE_QUEUED
  /\ UpdateSubjobState(o, CHOOSE d \in DoneData : d.ji_exitstat = 0,
                       JOB_STATE_RUNNING, history)

(* A running subjob ends with the exit status in d. *)
DoneExpire(o, d, history) ==
  /\ ji_ajtrk # NULLTBL
  /\ ValidOffset(ji_ajtrk[1], o)
  /\ Entry(ji_ajtrk[1], o).trk_status = JOB_STATE_RUNNING
  /\ UpdateSubjobState(o, d, JOB_STATE_EXPIRED, history)

(* A queued subjob is expired in the table without having run. *)
DoneDelete(o) ==
  /\ ji_ajtrk # NULLTBL
  /\ ValidOffset(ji_ajtrk[1], o)
  /\ Entry(ji_ajtrk[1], o).trk_status = JOB_STATE_QUEUED
  /\ SetSubjobTblstate(o, JOB_STATE_EXPIRED)

DoneNext ==
  \/ SetParentState(JOB_STATE_BEGUN)
  \/ \E o \in 0 .. 2, history \in BOOLEAN : DoneRun(o, history)
  \/ \E o \in 0 .. 2, d \in DoneData, history \in BOOLEAN :
       DoneExpire(o, d, history)
  \/ \E o \in 0 .. 2 : DoneDelete(o)
  \/ \E history \in BOOLEAN : ChkArrayDoneness(history)

SpecDone == DoneInit /\ [][DoneNext]_vars

(* The "all done" branch runs in this step: the chk_array_doneness call,
   made directly or by update_subjob_state, that first finds no subjob
   Queued, Running, Held or Exiting. *)
FirstFindsDone ==
  /\ last'.op \in {"chk_array_doneness", "update_subjob_state"}
  /\ last'.fin = 1

(* C18: in that call the accounting hook and the mail hook are each called
   exactly once, and the dependency hook exactly once if and only if the
   parent's depend attribute is set, whatever the parent's state. *)
C18_CompletionHooks ==
  [][FirstFindsDone
     => /\ hooks'.acct = hooks.acct + 1
        /\ hooks'.mail = hooks.mail + 1
        /\ hooks'.depend = hooks.depend + (IF parent.depend THEN 1 ELSE 0)]_vars

(* C18 as the code has it: the accounting hook and the mail hook are each
   called exactly once if and only if the parent is in JOB_STATE_BEGUN, the
   dependency hook exactly once if and only if the depend attribute is set,
   and none of them has been called before or is called again for the
   table. *)
C18_CompletionHooksAmended ==
  /\ [][FirstFindsDone
        => /\ hooks = NoHooks
           /\ hooks'.acct = (IF parent.ji_state = JOB_STATE_BEGUN THEN 1 ELSE 0)
           /\ hooks'.mail = (IF parent.ji_state = JOB_STATE_BEGUN THEN 1 ELSE 0)
           /\ hooks'.depend = (IF parent.depend THEN 1 ELSE 0)
           /\ hooks'.histpurge = 1]_vars
  /\ [][hooks.histpurge = 1 => hooks' = hooks]_vars

(* The array was done while its parent was still Queued: dependents were
   released, the history collaborator ran, no accounting record and no mail
   went out. *)
C18_Witness ==
  /\ last.fin = 1
  /\ parent.ji_state = JOB_STATE_QUEUED
  /\ parent.depend
  /\ hooks = [acct |-> 0, mail |-> 0, depend |-> 1, histpurge |-> 1]

(* The exit classification of a table's recorded errors. *)
Classify(t) ==
  IF \A k \in Offsets(t) : Entry(t, k).trk_error = 0 THEN 0
  ELSE IF \E k \in Offsets(t) : Entry(t, k).trk_error < 0 THEN 2
  ELSE 1

(* C19: when the "all done" branch has run, the parent's exit status is 0
   if every entry's trk_error is 0, 2 if some entry's is negative, wherever
   it stands in the table, and 1 otherwise. *)
C19_ExitClassification ==
  [][(last'.fin = 1 /\ last'.op = "chk_array_doneness"
        => parent'.ji_exitstat = Classify(ji_ajtrk[1]))
     /\ (last'.fin = 1 /\ last'.op = "update_subjob_state"
           /\ ji_ajtrk' # NULLTBL
        => parent'.ji_exitstat = Classify(ji_ajtrk'[1]))]_vars

(* Doneness of the table 0-2 whose first entry recorded a negative error
   and whose last a positive one: the exit status is 2. *)
C19_Witness ==
  /\ last.fin = 1
  /\ ji_ajtrk # NULLTBL
  /\ ji_ajtrk[1].tkm_ct = 3
  /\ Entry(ji_ajtrk[1], 0).trk_error < 0
  /\ Entry(ji_ajtrk[1], 1).trk_error = 0
  /\ Entry(ji_ajtrk[1], 2).trk_error > 0
  /\ parent.ji_exitstat = 2

(***************************************************************************)
(* job_save_db (job_recov_db.c): saving a job to the database.  The job    *)
(* is held in `parent`, the calls made on the log, the database and the    *)
(* process are counted in `hooks`, and `last` records the call.            *)
(***************************************************************************)
SAVEJOB_QUICK == "SAVEJOB_QUICK"

SAVEJOB_FULL == "SAVEJOB_FULL"

SAVEJOB_NEW == "SAVEJOB_NEW"

SAVEJOB_FULLFORCE == "SAVEJOB_FULLFORCE"

UpdateTypes == {SAVEJOB_QUICK, SAVEJOB_FULL, SAVEJOB_NEW, SAVEJOB_FULLFORCE}

JSVERSION == "JSVERSION"

(* A job structure version written by an older server. *)
JSVERSION_OLD == "JSVERSION_OLD"

MaxSaves == 2

(* What the database does during one call: the results of svr_to_db_job,
   of pbs_db_begin_trx, of pbs_db_save_obj ("dup" is a failure whose
   conn_db_err holds "duplicate key value") and of the first and second
   pbs_db_end_trx(PBS_DB_COMMIT). *)
DbOutcomes ==
  [to_db : {0, -1}, begin : {0, -1}, save : {"ok", "dup", "err"},
   end : [1 .. 2 -> {0, -1}]]

NoSaveCalls ==
  [log_err |-> 0, rollback |-> 0, panic_stop_db |-> 0, begin |-> 0,
   save |-> 0, commit |-> 0]

(* Lines 466-478 with panic_stop_db left out for every update type. *)
DbErr_NeverPanic(pjob, updatetype, h) ==
  [job |-> pjob, rc |-> -1,
   h |-> [h EXCEPT !.log_err = @ + 1, !.rollback = @ + 1]]

(* db_err: log, roll back, and stop the process unless the update type is
   SAVEJOB_NEW. *)
DbErr(pjob, updatetype, h) ==
  IF updatetype = SAVEJOB_NEW
  THEN [job |-> pjob, rc |-> -1,
        h |-> [h EXCEPT !.log_err = @ + 1, !.rollback = @ + 1]]
  ELSE [job |-> pjob, rc |-> -1,
        h |-> [h EXCEPT !.log_err = @ + 1, !.rollback = @ + 1,
                        !.panic_stop_db = @ + 1]]

(* Lines 459-465: the job is saved. *)
SaveDone(pjob, h) ==
  [job |-> [pjob EXCEPT !.ji_savetm = @ + 1, !.ji_modified = 0,
                        !.ji_newjob = 0],
   rc |-> 0, h |-> h]

(* Line 456: the commit that ends the save; it is the k-th
   pbs_db_end_trx(PBS_DB_COMMIT) of the call. *)
SaveCommit(pjob, updatetype, db, h, k) ==
  IF db.end[k] # 0
  THEN DbErr(pjob, updatetype, [h EXCEPT !.commit = @ + 1])
  ELSE SaveDone(pjob, [h EXCEPT !.commit = @ + 1])

(* Lines 417-425: the quick update, which commits once itself. *)
SaveQuick(pjob, updatetype, db, h) ==
  IF db.begin # 0
  THEN DbErr(pjob, updatetype, [h EXCEPT !.begin = @ + 1])
  ELSE IF db.save # "ok"
  THEN DbErr(pjob, updatetype, [h EXCEPT !.begin = @ + 1, !.save = @ + 1])
  ELSE IF db.end[1] # 0
  THEN DbErr(pjob, updatetype,
             [h EXCEPT !.begin = @ + 1, !.save = @ + 1, !.commit = @ + 1])
  ELSE SaveCommit(pjob, updatetype, db,
             [h EXCEPT !.begin = @ + 1, !.save = @ + 1, !.commit = @ + 1], 2)

(* Lines 443-450: a new job whose jobid is already in the database. *)
SaveClash(pjob, updatetype, db, h) ==
  IF db.end[1] # 0
  THEN DbErr(pjob, updatetype, [h EXCEPT !.commit = @ + 1])
  ELSE [job |-> pjob, rc |-> 1, h |-> [h EXCEPT !.commit = @ + 1]]

(* Lines 438-452: the write of the whole structure. *)
SaveFull(pjob, updatetype, db, h) ==
  IF db.begin # 0
  THEN DbErr(pjob, updatetype, [h EXCEPT !.begin = @ + 1])
  ELSE IF db.save = "ok"
  THEN SaveCommit(pjob, updatetype, db,
                  [h EXCEPT !.begin = @ + 1, !.save = @ + 1], 1)
  ELSE IF updatetype = SAVEJOB_NEW /\ db.save = "dup"
  THEN SaveClash(pjob, updatetype, db,
                 [h EXCEPT !.begin = @ + 1, !.save = @ + 1])
  ELSE DbErr(pjob, updatetype, [h EXCEPT !.begin = @ + 1, !.save = @ + 1])

(* Lines 402-415, once the update type is settled. *)
SaveTyped(pjob, updatetype, db) ==
  IF db.to_db # 0
  THEN DbErr(pjob, updatetype, NoSaveCalls)
  ELSE IF updatetype = SAVEJOB_QUICK
  THEN SaveQuick(pjob, updatetype, db, NoSaveCalls)
  ELSE SaveFull(pjob, updatetype, db, NoSaveCalls)

(* Lines 396-400: a job structure of another version forces a full
   write. *)
SaveVersioned(pjob, updatetype, db) ==
  IF pjob.ji_jsversion # JSVERSION
  THEN SaveTyped([pjob EXCEPT !.ji_jsversion = JSVERSION],
                 SAVEJOB_FULLFORCE, db)
  ELSE SaveTyped(pjob, updatetype, db)

(* job_save_db(pjob, updatetype) against a database that behaves as db:
   the job afterwards, the return value and the calls made. *)
job_save_db(pjob, updatetype, db) ==
  IF pjob.ji_newjob = 1 /\ updatetype # SAVEJOB_NEW
  THEN [job |-> pjob, rc |-> 0, h |-> NoSaveCalls]
  ELSE IF pjob.ji_modified = 1
  THEN SaveVersioned([pjob EXCEPT !.mtime = "time_now"], updatetype, db)
  ELSE SaveVersioned(pjob, updatetype, db)

SaveJobs ==
  [ji_newjob : {0, 1}, ji_modified : {0, 1},
   ji_jsversion : {JSVERSION, JSVERSION_OLD}, mtime : {"ctime"},
   ji_savetm : {0}]

SaveInit ==
  /\ ji_ajtrk = NULLTBL
  /\ parent \in SaveJobs
  /\ hooks = NoSaveCalls
  /\ nalloc = 0
  /\ last = [op |-> "none", n |-> 0]
  /\ CodecInit

(* The state once the call has returned r. *)
SaveReturned(r, updatetype) ==
  /\ parent' = r.job
  /\ hooks' = [f \in DOMAIN hooks |-> hooks[f] + r.h[f]]
  /\ last' = [op |-> "job_save_db", n |-> last.n + 1,
              updatetype |-> updatetype, rc |-> r.rc]

(* One call of job_save_db; after panic_stop_db the process is gone. *)
JobSaveDb ==
  /\ last.n < MaxSaves
  /\ hooks.panic_stop_db = 0
  /\ \E updatetype \in UpdateTypes, db \in DbOutcomes :
       SaveReturned(job_save_db(parent, updatetype, db), updatetype)
  /\ UNCHANGED <<ji_ajtrk, nalloc, codecvars>>

(* An attribute of the job is changed between two saves. *)
JobModified ==
  /\ hooks.panic_stop_db = 0
  /\ parent.ji_modified = 0
  /\ parent' = [parent EXCEPT !.ji_modified = 1]
  /\ UNCHANGED <<ji_ajtrk, hooks, nalloc, last, codecvars>>

SaveNext ==
  \/ JobSaveDb
  \/ JobModified

SpecSave == SaveInit /\ [][SaveNext]_vars

(* This step is a call job_save_db(pjob, updatetype) that fails. *)
SaveFails(updatetype) ==
  /\ last'.n = last.n + 1
  /\ last'.updatetype = updatetype
  /\ last'.rc = -1

(* C20: when job_save_db with update type SAVEJOB_QUICK fails, the failure
   is logged and -1 is returned without panic_stop_db being invoked, so
   the process goes on. *)
C20_QuickSaveNonFatal ==
  [][SaveFails(SAVEJOB_QUICK) =>
       /\ hooks'.log_err = hooks.log_err + 1
       /\ hooks'.panic_stop_db = hooks.panic_stop_db]_vars

(* C20, amended: a failing job_save_db logs the failure once and rolls the
   transaction back once; it returns without panic_stop_db exactly when
   the update type is SAVEJOB_NEW and the job structure has the current
   version, and otherwise (SAVEJOB_QUICK included) invokes panic_stop_db
   once, after which no further call is made. *)
C20_QuickSaveFatal ==
  /\ [][\A u \in UpdateTypes : SaveFails(u) =>
          /\ hooks'.log_err = hooks.log_err + 1
          /\ hooks'.rollback = hooks.rollback + 1
          /\ hooks'.panic_stop_db = hooks.panic_stop_db +
               (IF u = SAVEJOB_NEW /\ parent.ji_jsversion = JSVERSION
                THEN 0 ELSE 1)]_vars
  /\ [][hooks.panic_stop_db > 0 => UNCHANGED vars]_vars

(* A quick save of a saved job has failed at its first commit and the
   process was stopped. *)
C20_Witness ==
  /\ last.op = "job_save_db"
  /\ last.updatetype = SAVEJOB_QUICK
  /\ last.rc = -1
  /\ parent.ji_newjob = 0
  /\ hooks = [log_err |-> 1, rollback |-> 1, panic_stop_db |-> 1,
              begin |-> 1, save |-> 1, commit |-> 1]

(***************************************************************************)
(* Two array jobs served by one server.  Each job has its own tracking     *)
(* table; cvt_range, get_index_from_jid and mk_subjob_id each return a     *)
(* pointer to their one static buffer ("static char *buf", "static char    *)
(* *index", "static char jid[]").  A caller working on its job issues a    *)
(* call, holds the pointer returned, and reads the text behind it in a     *)
(* later step; the other job's caller runs in between.  Here               *)
(*   ji_ajtrk[j]  is the table pointer of job j,                           *)
(*   parent[j]    the job id of job j,                                     *)
(*   buf[f]       the static buffer of function f,                         *)
(*   cur[j]       the function whose result the caller of j holds,         *)
(*   bufof[j]     the text that call wrote, which is what the caller would *)
(*                read were no other job served,                           *)
(*   got[j]       the text the caller read last: <<>> or <<text>>.         *)
(***************************************************************************)
PairJobs == {"A", "B"}

PairJid == [A |-> ParentJid, B |-> <<"8", "[", "]", ".", "h">>]

PairTexts == [A |-> Text14s3, B |-> Text3]

PairFuncs == {"cvt_range", "get_index_from_jid", "mk_subjob_id"}

PairBuilt(j) ==
  mk_subjob_index_tbl(PairTexts[j], JOB_STATE_QUEUED, ATR_ACTION_NEW,
                      PBS_MAX_ARRAY_JOB_DFL, TRUE).tbl

PairInit ==
  /\ ji_ajtrk = [j \in PairJobs |-> PairBuilt(j)]
  /\ parent = PairJid
  /\ hooks = NoHooks
  /\ nalloc = 0
  /\ last = [op |-> "none"]
  /\ buf = [f \in PairFuncs |-> <<>>]
  /\ cur = [j \in PairJobs |-> "none"]
  /\ got = [j \in PairJobs |-> <<>>]
  /\ prc = 0
  /\ bufof = [j \in PairJobs |-> <<>>]

(* The caller of job j has called f, which left text in its static buffer
   and returned the buffer's address; what the caller read before is
   forgotten. *)
PairCalled(j, f, text) ==
  /\ buf' = [buf EXCEPT ![f] = text]
  /\ cur' = [cur EXCEPT ![j] = f]
  /\ bufof' = [bufof EXCEPT ![j] = text]
  /\ got' = [got EXCEPT ![j] = <<>>]
  /\ last' = [op |-> f, job |-> j]
  /\ UNCHANGED <<ji_ajtrk, lifevars, prc>>

PairCvtRange(j) ==
  /\ cur[j] = "none"
  /\ PairCalled(j, "cvt_range", cvt_range(ji_ajtrk[j], JOB_STATE_QUEUED))

PairGetIndexFromJid(j, o) ==
  /\ cur[j] = "none"
  /\ ValidOffset(ji_ajtrk[j][1], o)
  /\ PairCalled(j, "get_index_from_jid",
                get_index_from_jid(mk_subjob_id(parent[j], ji_ajtrk[j][1], o),
                                   TRUE)[1])

PairMkSubjobId(j, o) ==
  /\ cur[j] = "none"
  /\ ValidOffset(ji_ajtrk[j][1], o)
  /\ PairCalled(j, "mk_subjob_id", mk_subjob_id(parent[j], ji_ajtrk[j][1], o))

(* The caller of job j reads the text behind the pointer it holds. *)
PairRead(j) ==
  /\ cur[j] # "none"
  /\ got' = [got EXCEPT ![j] = <<buf[cur[j]]>>]
  /\ cur' = [cur EXCEPT ![j] = "none"]
  /\ last' = [op |-> "read", job |-> j]
  /\ UNCHANGED <<ji_ajtrk, lifevars, buf, prc, bufof>>

(* A state update of job j, made by its caller between two calls. *)
PairSetState(j, o, s) ==
  /\ cur[j] = "none"
  /\ ValidOffset(ji_ajtrk[j][1], o)
  /\ ji_ajtrk' = [ji_ajtrk EXCEPT ![j] = set_subjob_tblstate(@, o, s)]
  /\ last' = [op |-> "set_subjob_tblstate", job |-> j]
  /\ UNCHANGED <<lifevars, codecvars>>

PairNext ==
  \/ \E j \in PairJobs : PairCvtRange(j)
  \/ \E j \in PairJobs, o \in 0 .. 1 : PairGetIndexFromJid(j, o)
  \/ \E j \in PairJobs, o \in 0 .. 1 : PairMkSubjobId(j, o)
  \/ \E j \in PairJobs : PairRead(j)
  \/ \E j \in PairJobs, o \in 0 .. 1, s \in CodecSetStates :
       PairSetState(j, o, s)

SpecPair == PairInit /\ [][PairNext]_vars

(* C21: whatever the interleaving of the calls made for job A and for job
   B, the text a caller reads as the result of its cvt_range,
   get_index_from_jid or mk_subjob_id call is the text that call produced
   from its own job, as when no other job is served. *)
C21_Independence ==
  \A j \in PairJobs :
     last = [op |-> "read", job |-> j] => got[j] = <<bufof[j]>>

(***************************************************************************)
(* The table's geometry.  An array job whose table was built by            *)
(* setup_arrayjob_attrs goes through every operation that works on the     *)
(* table: set_subjob_tblstate, update_subjob_state, chk_array_doneness,    *)
(* fixup_arrayindicies, create_subjob and cvt_range; the table is replaced *)
(* when the job is read back (RECOV) and destroyed when the finished job   *)
(* is purged.                                                              *)
(***************************************************************************)
FrameTexts == {Text14s3, Text15s2}

(* The index below the range and the first index of either table;
   job_alloc succeeds, and svr_enquejob succeeds or fails. *)
FrameIndices == {0, 1}

FrameEnvs == {e \in CreateEnvs : e.idxmem /\ e.alloc}

(* The subjob that expires has run without error. *)
FrameData == CHOOSE d \in SubjobData : d.ji_exitstat = 0

FrameInit ==
  /\ \E text \in FrameTexts :
       DoneBuilt(setup_arrayjob_attrs(
                   [t |-> NULLTBL, p |-> NewParent({JOB_SVFLG_HERE}, FALSE),
                    h |-> NoHooks, b |-> <<>>, saves |-> 0, fin |-> 0],
                   text, ATR_ACTION_NEW, PBS_MAX_ARRAY_JOB_DFL, TRUE))
  /\ hooks = NoHooks
  /\ nalloc = 0
  /\ last = Did("setup_arrayjob_attrs", 0, 0, PBSE_NONE, 0, Idle)
  /\ CodecInit

FrameCreate(i, env) ==
  /\ ~parent.gone
  /\ ji_ajtrk # NULLTBL
  /\ CreateSubjob(i, env)

FrameCvt(s) ==
  /\ ~parent.gone
  /\ CvtRange(s)

FrameNext ==
  \/ \E text \in FrameTexts :
       SetupArrayjobAttrs(text, ATR_ACTION_RECOV, EnvDflt)
  \/ \E o \in 0 .. 2, s \in CodecSetStates : SetSubjobTblstate(o, s)
  \/ \E o \in 0 .. 2, history \in BOOLEAN :
       UpdateSubjobState(o, FrameData, JOB_STATE_EXPIRED, history)
  \/ \E history \in BOOLEAN : ChkArrayDoneness(history)
  \/ \E text \in {Dash, <<"4">>} : FixupArrayindicies(text, ATR_ACTION_ALTER)
  \/ \E i \in FrameIndices, env \in FrameEnvs : FrameCreate(i, env)
  \/ FrameCvt(JOB_STATE_QUEUED)

SpecFrame == FrameInit /\ [][FrameNext]_vars

(* tkm_ct, tkm_start, tkm_end and tkm_step of a table. *)
Geometry(t) == <<t.tkm_ct, t.tkm_start, t.tkm_end, t.tkm_step>>

FrameOps ==
  {"set_subjob_tblstate", "update_subjob_state", "chk_array_doneness",
   "fixup_arrayindicies", "create_subjob", "cvt_range"}

(* C22 (I2): in every table count = (end - start + step) / step, and a
   step of set_subjob_tblstate, update_subjob_state, chk_array_doneness,
   fixup_arrayindicies, create_subjob or cvt_range that leaves the job its
   table leaves the table's count, start, end and step as they were. *)
C22_GeometryFixed ==
  /\ [](ji_ajtrk # NULLTBL =>
          ji_ajtrk[1].tkm_ct =
            (ji_ajtrk[1].tkm_end - ji_ajtrk[1].tkm_start
               + ji_ajtrk[1].tkm_step) \div ji_ajtrk[1].tkm_step)
  /\ [][last'.op \in FrameOps /\ ji_ajtrk # NULLTBL /\ ji_ajtrk' # NULLTBL
          => Geometry(ji_ajtrk'[1]) = Geometry(ji_ajtrk[1])]_vars

(* The table of "1-5:2" after a subjob was created, an entry expired and
   the remaining indices fixed up to "4", which is none of its indices. *)
C22_Witness ==
  /\ ji_ajtrk # NULLTBL
  /\ Geometry(ji_ajtrk[1]) = <<3, 1, 5, 2>>
  /\ last.op = "fixup_arrayindicies"
  /\ nalloc > 0
  /\ \A k \in Offsets(ji_ajtrk[1]) :
        Entry(ji_ajtrk[1], k).trk_status = JOB_STATE_EXPIRED

(***************************************************************************)
(* set_subjob_tblstate with any offset.  The code tests the offset against *)
(* -1 only and then reads tkm_tbl[offset].trk_status; for an offset that   *)
(* is not an entry of the table this is a read outside the array, whose    *)
(* result is whatever the memory there holds (mem).  In this specification *)
(* got is the set of offsets outside the table that have been read or      *)
(* written.                                                                *)
(***************************************************************************)
MaxOutside == 2

(* Lines 362-368 for an offset outside the table whose memory held
   oldstate: the counters and the flag of the table are written. *)
OutsideWrite(t, oldstate, newstate) ==
  <<[t EXCEPT !.tkm_subjsct[oldstate] = @ - 1,
              !.tkm_subjsct[newstate] = t.tkm_subjsct[newstate] + 1,
              !.tkm_flags = @ \cup {TKMFLG_REVAL_IND_REMAINING}]>>

(* set_subjob_tblstate(parent, offset, newstate) where the memory at
   tkm_tbl[offset], for an offset outside the table, holds the state mem. *)
set_subjob_tblstate_mem(ptbl, offset, newstate, mem) ==
  IF offset = -1 THEN ptbl
  ELSE IF ptbl = NULLTBL THEN ptbl
  ELSE IF ValidOffset(ptbl[1], offset)
  THEN set_subjob_tblstate(ptbl, offset, newstate)
  ELSE IF mem = newstate THEN ptbl
  ELSE OutsideWrite(ptbl[1], mem, newstate)

OutsideInit ==
  /\ \E text \in DoneTexts :
       DoneBuilt(setup_arrayjob_attrs(
                   [t |-> NULLTBL, p |-> NewParent({JOB_SVFLG_HERE}, FALSE),
                    h |-> NoHooks, b |-> <<>>, saves |-> 0, fin |-> 0],
                   text, ATR_ACTION_NEW, PBS_MAX_ARRAY_JOB_DFL, TRUE))
  /\ hooks = NoHooks
  /\ nalloc = 0
  /\ last = [op |-> "none", a |-> 0, n |-> 0]
  /\ CodecInit

(* One call; the offsets run from two below the table to two above it,
   and n counts the calls with an offset that is neither -1 nor one of the
   table. *)
SetStateAnyOffset(o, s, mem) ==
  /\ o < ji_ajtrk[1].tkm_ct + 2
  /\ o = -1 \/ ValidOffset(ji_ajtrk[1], o) \/ last.n < MaxOutside
  /\ ji_ajtrk' = set_subjob_tblstate_mem(ji_ajtrk, o, s, mem)
  /\ got' = IF o = -1 \/ ValidOffset(ji_ajtrk[1], o) THEN got
            ELSE got \cup {o}
  /\ last' = [op |-> "set_subjob_tblstate", a |-> o,
              n |-> IF o = -1 \/ ValidOffset(ji_ajtrk[1], o)
                    THEN last.n ELSE last.n + 1]
  /\ UNCHANGED <<lifevars, buf, cur, prc, bufof>>

OutsideNext ==
  \E o \in -2 .. 4, s \in LifeStates, mem \in LifeStates :
     SetStateAnyOffset(o, s, mem)

SpecOutside == OutsideInit /\ [][OutsideNext]_vars

(* C23: a set_subjob_tblstate call with an offset below 0 or not below
   tkm_ct changes nothing in the table (entries, counters, flags) and
   reads or writes nothing outside it. *)
C23_InvalidOffsetNoOp ==
  [][last'.op = "set_subjob_tblstate" /\ ~ValidOffset(ji_ajtrk[1], last'.a)
       => ji_ajtrk' = ji_ajtrk /\ got' = got]_vars

(***************************************************************************)
(* chk_array_doneness step by step.  account_jobend, svr_mailowner,        *)
(* depend_on_term and svr_saveorpurge_finjobhist are calls into the rest   *)
(* of the server, and while one of them runs for the parent it may call    *)
(* chk_array_doneness for the same parent again.  In this specification    *)
(* cur is the stack of chk_array_doneness calls in progress, innermost     *)
(* last; each is at                                                        *)
(*   "entry"         before the tests of lines 413-420,                    *)
(*   "acct"          before the test of the parent's state (line 438),     *)
(*   "in_acct"       inside account_jobend,                                *)
(*   "in_mail"       inside svr_mailowner,                                 *)
(*   "depend"        before the test of the depend attribute (line 447),   *)
(*   "in_depend"     inside depend_on_term,                                *)
(*   "mark"          before line 453,                                      *)
(*   "in_histpurge"  inside svr_saveorpurge_finjobhist.                    *)
(* The finished job is kept as history.                                    *)
(***************************************************************************)
MaxDepth == 2

InHook == {"in_acct", "in_mail", "in_depend", "in_histpurge"}

Top == cur[Len(cur)]

SetTop(pc) == [cur EXCEPT ![Len(cur)] = pc]

Pop == SubSeq(cur, 1, Len(cur) - 1)

NestedInit ==
  /\ \E text \in DoneTexts, depend \in BOOLEAN :
       DoneBuilt(setup_arrayjob_attrs(
                   [t |-> NULLTBL, p |-> NewParent({JOB_SVFLG_HERE}, depend),
                    h |-> NoHooks, b |-> <<>>, saves |-> 0, fin |-> 0],
                   text, ATR_ACTION_NEW, PBS_MAX_ARRAY_JOB_DFL, TRUE))
  /\ hooks = NoHooks
  /\ nalloc = 0
  /\ last = Did("setup_arrayjob_attrs", 0, 0, PBSE_NONE, 0, Idle)
  /\ buf = <<>>
  /\ cur = <<>>
  /\ got = {}
  /\ prc = 0
  /\ bufof = <<>>

(* Between two requests: the parent begins, a queued subjob is expired. *)
NestedBegun ==
  /\ cur = <<>>
  /\ SetParentState(JOB_STATE_BEGUN)

NestedExpire(o) ==
  /\ cur = <<>>
  /\ ValidOffset(ji_ajtrk[1], o)
  /\ Entry(ji_ajtrk[1], o).trk_status = JOB_STATE_QUEUED
  /\ SetSubjobTblstate(o, JOB_STATE_EXPIRED)

(* chk_array_doneness(parent) is called by a request handler ... *)
NestedCall ==
  /\ cur = <<>>
  /\ cur' = <<"entry">>
  /\ last' = [op |-> "call"]
  /\ UNCHANGED <<ji_ajtrk, lifevars, buf, got, prc, bufof>>

(* ... or by the collaborator the innermost call is in. *)
NestedReenter ==
  /\ cur # <<>>
  /\ Len(cur) < MaxDepth
  /\ Top \in InHook
  /\ cur' = Append(cur, "entry")
  /\ last' = [op |-> "reenter"]
  /\ UNCHANGED <<ji_ajtrk, lifevars, buf, got, prc, bufof>>

(* The state once the else branch (lines 457-459) has left the world w. *)
NestedSaved(w) ==
  /\ ji_ajtrk' = w.t
  /\ parent' = w.p
  /\ buf' = w.b
  /\ cur' = Pop

(* Lines 413-435 and 456-460 of the innermost call. *)
NestedGuard ==
  /\ cur # <<>>
  /\ Top = "entry"
  /\ IF ji_ajtrk[1].tkm_flags \cap GuardFlags # {}
     THEN cur' = Pop /\ UNCHANGED <<ji_ajtrk, parent, buf>>
     ELSE IF ActiveCount(ji_ajtrk[1]) = 0
     THEN /\ parent' = [parent EXCEPT
                          !.ji_exitstat = ExitScan(ji_ajtrk[1], 0, 0)]
          /\ cur' = SetTop("acct")
          /\ UNCHANGED <<ji_ajtrk, buf>>
     ELSE NestedSaved(update_array_indices_remaining_attr(World))
  /\ last' = [op |-> "guard"]
  /\ UNCHANGED <<hooks, nalloc, got, prc, bufof>>

(* Lines 438-443: account_jobend is entered for a parent that has begun. *)
NestedAcct ==
  /\ cur # <<>>
  /\ Top = "acct"
  /\ IF parent.ji_state = JOB_STATE_BEGUN
     THEN /\ hooks' = [hooks EXCEPT !.acct = @ + 1]
          /\ cur' = SetTop("in_acct")
     ELSE /\ hooks' = hooks
          /\ cur' = SetTop("depend")
  /\ last' = [op |-> "account_jobend"]
  /\ UNCHANGED <<ji_ajtrk, parent, nalloc, buf, got, prc, bufof>>

(* Line 445: account_jobend has returned, svr_mailowner is entered. *)
NestedMail ==
  /\ cur # <<>>
  /\ Top = "in_acct"
  /\ hooks' = [hooks EXCEPT !.mail = @ + 1]
  /\ cur' = SetTop("in_mail")
  /\ last' = [op |-> "svr_mailowner"]
  /\ UNCHANGED <<ji_ajtrk, parent, nalloc, buf, got, prc, bufof>>

(* Lines 447-448: depend_on_term is entered when the attribute is set. *)
NestedDepend ==
  /\ cur # <<>>
  /\ Top \in {"in_mail", "depend"}
  /\ IF parent.depend
     THEN /\ hooks' = [hooks EXCEPT !.depend = @ + 1]
          /\ cur' = SetTop("in_depend")
     ELSE /\ hooks' = hooks
          /\ cur' = SetTop("mark")
  /\ last' = [op |-> "depend_on_term"]
  /\ UNCHANGED <<ji_ajtrk, parent, nalloc, buf, got, prc, bufof>>

(* Lines 453-455: the table is marked, svr_saveorpurge_finjobhist is
   entered. *)
NestedMark ==
  /\ cur # <<>>
  /\ Top \in {"in_depend", "mark"}
  /\ ji_ajtrk' = [ji_ajtrk EXCEPT ![1].tkm_flags = @ \cup {TKMFLG_CHK_ARRAY}]
  /\ hooks' = [hooks EXCEPT !.histpurge = @ + 1]
  /\ cur' = SetTop("in_histpurge")
  /\ last' = [op |-> "svr_saveorpurge_finjobhist"]
  /\ UNCHANGED <<parent, nalloc, buf, got, prc, bufof>>

(* Line 461: svr_saveorpurge_finjobhist has returned and the call ends. *)
NestedReturn ==
  /\ cur # <<>>
  /\ Top = "in_histpurge"
  /\ cur' = Pop
  /\ last' = [op |-> "return"]
  /\ UNCHANGED <<ji_ajtrk, lifevars, buf, got, prc, bufof>>

NestedNext ==
  \/ NestedBegun
  \/ \E o \in 0 .. 2 : NestedExpire(o)
  \/ NestedCall
  \/ NestedReenter
  \/ NestedGuard
  \/ NestedAcct
  \/ NestedMail
  \/ NestedDepend
  \/ NestedMark
  \/ NestedReturn

SpecNested == NestedInit /\ [][NestedNext]_vars

(* C24: a chk_array_doneness call made for the parent while an outer call
   is inside account_jobend, svr_mailowner or depend_on_term returns at
   its first tests, and none of accounting, mail and dependency release
   runs a second time. *)
C24_NestedReturnsAtOnce ==
  /\ \A k \in 2 .. Len(cur) : cur[k] = "entry"
  /\ hooks.acct <= 1
  /\ hooks.mail <= 1
  /\ hooks.depend <= 1

(***************************************************************************)
(* The guard of chk_array_doneness.  The array job of the doneness         *)
(* specification, with one more request: the deletion of the job's         *)
(* subjobs, which sets TKMFLG_NO_DELETE on the table while it goes through *)
(* them and clears it when it is through.  Subjobs are also held and       *)
(* exiting, so that each of the four counters chk_array_doneness adds up   *)
(* is the only one above 0 in some state.                                  *)
(***************************************************************************)
SetNoDelete(on) ==
  /\ ~parent.gone
  /\ ji_ajtrk # NULLTBL
  /\ on = (TKMFLG_NO_DELETE \notin ji_ajtrk[1].tkm_flags)
  /\ ji_ajtrk' = [ji_ajtrk EXCEPT ![1].tkm_flags =
                    IF on THEN @ \cup {TKMFLG_NO_DELETE}
                    ELSE @ \ {TKMFLG_NO_DELETE}]
  /\ last' = Did("delete_subjobs", 0, 0, PBSE_NONE, 0, Idle)
  /\ UNCHANGED <<lifevars, codecvars>>

(* A queued subjob is held, a running one is exiting. *)
GuardMove(o, m) ==
  /\ ~parent.gone
  /\ ji_ajtrk # NULLTBL
  /\ m[2] # JOB_STATE_EXPIRED
  /\ MoveSubjob(o, m)

GuardNext ==
  \/ DoneNext
  \/ \E on \in BOOLEAN : SetNoDelete(on)
  \/ \E o \in 0 .. 2, m \in IndexMoves : GuardMove(o, m)

SpecGuard == DoneInit /\ [][GuardNext]_vars

(* C25: a chk_array_doneness call on a table that has TKMFLG_NO_DELETE or
   TKMFLG_CHK_ARRAY set changes nothing: the table, the parent (its exit
   status and remaining-indices text included), the collaborators' call
   counts and cvt_range's buffer stay as they were, and no save is made. *)
C25_GuardedReturn ==
  [][/\ last'.op = "chk_array_doneness"
     /\ ji_ajtrk[1].tkm_flags \cap {TKMFLG_NO_DELETE, TKMFLG_CHK_ARRAY} # {}
     => /\ ji_ajtrk' = ji_ajtrk
        /\ parent' = parent
        /\ hooks' = hooks
        /\ buf' = buf
        /\ last'.saves = 0
        /\ last'.fin = 0]_vars

(* chk_array_doneness has been called during a deletion, when every
   subjob had expired and the remaining-indices text was stale, and did
   nothing. *)
C25_Witness ==
  /\ last.op = "chk_array_doneness"
  /\ ji_ajtrk # NULLTBL
  /\ ji_ajtrk[1].tkm_flags = {TKMFLG_NO_DELETE, TKMFLG_REVAL_IND_REMAINING}
  /\ ActiveCount(ji_ajtrk[1]) = 0
  /\ hooks = NoHooks
  /\ last.saves = 0
  /\ last.fin = 0

(* What update_array_indices_remaining_attr stores for table t: the
   Queued indices as cvt_range formats them, "-" when there is none. *)
RemainingOf(ptbl) ==
  IF cvt_range(ptbl, JOB_STATE_QUEUED) = <<>>
  THEN Dash ELSE cvt_range(ptbl, JOB_STATE_QUEUED)

(* C26: a chk_array_doneness call on a table without guard flag that has
   an entry Queued, Running, Held or Exiting saves the parent exactly
   once, calls no completion collaborator, does not set TKMFLG_CHK_ARRAY,
   leaves the parent's exit status and the entries as they are, and, when
   TKMFLG_REVAL_IND_REMAINING is set, stores the text of the Queued
   indices and clears the flag, and otherwise leaves text and flags. *)
C26_StillActive ==
  [][/\ last'.op = "chk_array_doneness"
     /\ ji_ajtrk[1].tkm_flags \cap {TKMFLG_NO_DELETE, TKMFLG_CHK_ARRAY} = {}
     /\ NumActive(ji_ajtrk[1]) > 0
     => /\ last'.saves = 1
        /\ last'.fin = 0
        /\ hooks' = hooks
        /\ ji_ajtrk' # NULLTBL
        /\ TKMFLG_CHK_ARRAY \notin ji_ajtrk'[1].tkm_flags
        /\ parent'.ji_exitstat = parent.ji_exitstat
        /\ ji_ajtrk'[1].tkm_tbl = ji_ajtrk[1].tkm_tbl
        /\ ji_ajtrk'[1].tkm_subjsct = ji_ajtrk[1].tkm_subjsct
        /\ IF TKMFLG_REVAL_IND_REMAINING \in ji_ajtrk[1].tkm_flags
           THEN /\ parent'.remaining = <<RemainingOf(ji_ajtrk)>>
                /\ ji_ajtrk'[1].tkm_flags =
                     ji_ajtrk[1].tkm_flags \ {TKMFLG_REVAL_IND_REMAINING}
           ELSE /\ parent' = parent
                /\ ji_ajtrk' = ji_ajtrk]_vars

(* chk_array_doneness has saved an array whose only unfinished subjob is
   held, after refreshing the text to "-". *)
C26_Witness ==
  /\ last.op = "chk_array_doneness"
  /\ last.saves = 1
  /\ ji_ajtrk # NULLTBL
  /\ ji_ajtrk[1].tkm_subjsct[JOB_STATE_HELD] = 1
  /\ NumActive(ji_ajtrk[1]) = 1
  /\ ji_ajtrk[1].tkm_flags = {}
  /\ parent.remaining = <<Dash>>
  /\ hooks = NoHooks

(* C27: a set_subjob_tblstate call that changes an entry's state leaves
   TKMFLG_REVAL_IND_REMAINING set; update_array_indices_remaining_attr on
   a table with the flag set stores the text of the Queued indices ("-"
   when there is none), clears the flag and leaves the rest of the table,
   and on a table with the flag clear it changes nothing. *)
C27_DirtyFlag ==
  [][/\ (last'.op = "set_subjob_tblstate"
           /\ ji_ajtrk'[1].tkm_tbl # ji_ajtrk[1].tkm_tbl
         => TKMFLG_REVAL_IND_REMAINING \in ji_ajtrk'[1].tkm_flags)
     /\ (last'.op = "update_array_indices_remaining_attr"
         => IF TKMFLG_REVAL_IND_REMAINING \in ji_ajtrk[1].tkm_flags
            THEN /\ parent'.remaining = <<RemainingOf(ji_ajtrk)>>
                 /\ ji_ajtrk' =
                      [ji_ajtrk EXCEPT ![1].tkm_flags =
                         @ \ {TKMFLG_REVAL_IND_REMAINING}]
            ELSE /\ ji_ajtrk' = ji_ajtrk
                 /\ parent' = parent
                 /\ buf' = buf)]_vars

(* The first subjob of "1-4:3" has left Queued and
   update_array_indices_remaining_attr has brought the text up to date. *)
C27_Witness ==
  /\ last.op = "update_array_indices_remaining_attr"
  /\ ji_ajtrk # NULLTBL
  /\ Geometry(ji_ajtrk[1]) = <<2, 1, 4, 3>>
  /\ Entry(ji_ajtrk[1], 0).trk_status = JOB_STATE_RUNNING
  /\ TKMFLG_REVAL_IND_REMAINING \notin ji_ajtrk[1].tkm_flags
  /\ parent.remaining = <<(<<"4">>)>>

(***************************************************************************)
(* Recording a subjob that has ended.  An array job of one or two subjobs; *)
(* each runs and then expires with an exit status from -MaxExit to         *)
(* MaxExit, with or without its stageout_status and exit_status attributes *)
(* set, on a server that keeps job history or does not.  last records what *)
(* the subjob carried.                                                     *)
(***************************************************************************)
RecordTexts == {Text14s3, Text3}

RecordData ==
  [ji_exitstat : (-MaxExit) .. MaxExit, stageout_status : {<<>>, <<1>>},
   exit_status : {<<>>, <<0>>}, ji_substate : {JOB_SUBSTATE_FINISHED}]

RecordInit ==
  /\ \E text \in RecordTexts :
       DoneBuilt(setup_arrayjob_attrs(
                   [t |-> NULLTBL, p |-> NewParent({JOB_SVFLG_HERE}, FALSE),
                    h |-> NoHooks, b |-> <<>>, saves |-> 0, fin |-> 0],
                   text, ATR_ACTION_NEW, PBS_MAX_ARRAY_JOB_DFL, TRUE))
  /\ hooks = NoHooks
  /\ nalloc = 0
  /\ last = Did("setup_arrayjob_attrs", 0, 0, PBSE_NONE, 0, Idle)
  /\ CodecInit

(* The subjob at offset o carrying d. *)
SubjobAt(o, d) ==
  [ji_jobid |-> mk_subjob_id(parent.ji_jobid, ji_ajtrk[1], o),
   ji_subjindx |-> o, ji_exitstat |-> d.ji_exitstat,
   stageout_status |-> d.stageout_status, exit_status |-> d.exit_status,
   ji_substate |-> d.ji_substate]

(* The state once update_subjob_state(pjob, JOB_STATE_EXPIRED) has left
   the world w. *)
RecordReturned(w, o, d, history) ==
  /\ Commit(w)
  /\ last' = [op |-> "update_subjob_state", a |-> o,
              st |-> JOB_STATE_EXPIRED, d |-> d, history |-> history,
              fin |-> w.fin, saves |-> w.saves]

(* A running subjob ends; a server without history purges the finished
   array job. *)
RecordExpire(o, d, history) ==
  /\ ~parent.gone
  /\ ji_ajtrk # NULLTBL
  /\ ValidOffset(ji_ajtrk[1], o)
  /\ Entry(ji_ajtrk[1], o).trk_status = JOB_STATE_RUNNING
  /\ RecordReturned(
       update_subjob_state(World, SubjobAt(o, d), JOB_STATE_EXPIRED,
                           history, history),
       o, d, history)
  /\ UNCHANGED <<nalloc, cur, got, prc, bufof>>

RecordNext ==
  \/ SetParentState(JOB_STATE_BEGUN)
  \/ \E o \in 0 .. 1, history \in BOOLEAN : DoneRun(o, history)
  \/ \E o \in 0 .. 1, d \in RecordData, history \in BOOLEAN :
       RecordExpire(o, d, history)

SpecRecord == RecordInit /\ [][RecordNext]_vars

(* The entry of a subjob that carried d when it expired. *)
RecordedEntry(entry, d, history) ==
  [entry EXCEPT
     !.trk_status = JOB_STATE_EXPIRED,
     !.trk_error = d.ji_exitstat,
     !.trk_substate = d.ji_substate,
     !.trk_stgout =
        IF history /\ d.stageout_status # <<>>
        THEN d.stageout_status[1] ELSE @,
     !.trk_exitstat = IF history /\ d.exit_status # <<>> THEN 1 ELSE @]

(* C28: update_subjob_state(subjob, JOB_STATE_EXPIRED) leaves the
   subjob's entry Expired with the subjob's exit status as trk_error, with
   trk_stgout and trk_exitstat written only on a server that keeps history
   (and only from attributes that are set), and leaves every other entry
   alone; and when the call finds the array done, the parent's exit status
   is the classification of the entries with this subjob's exit status
   among them. *)
C28_RecordBeforeDoneness ==
  [][last'.op = "update_subjob_state" /\ last'.st = JOB_STATE_EXPIRED
     => /\ ji_ajtrk' # NULLTBL =>
             ji_ajtrk'[1].tkm_tbl =
               [ji_ajtrk[1].tkm_tbl EXCEPT
                  ![last'.a + 1] = RecordedEntry(@, last'.d, last'.history)]
        /\ last'.fin = 1 =>
             parent'.ji_exitstat =
               Classify([ji_ajtrk[1] EXCEPT
                           !.tkm_tbl[last'.a + 1].trk_error =
                              last'.d.ji_exitstat])]_vars

(* The last subjob of "1-4:3" has ended with a negative exit status and
   both attributes set on a server that keeps history, after the first
   ended with 0: the array is done with exit status 2. *)
C28_Witness ==
  /\ last.op = "update_subjob_state"
  /\ last.st = JOB_STATE_EXPIRED
  /\ last.a = 1
  /\ last.fin = 1
  /\ last.history
  /\ ji_ajtrk # NULLTBL
  /\ Entry(ji_ajtrk[1], 0).trk_error = 0
  /\ Entry(ji_ajtrk[1], 1).trk_error < 0
  /\ Entry(ji_ajtrk[1], 1).trk_stgout = 1
  /\ Entry(ji_ajtrk[1], 1).trk_exitstat = 1
  /\ parent.ji_exitstat = 2

(***************************************************************************)
(* parse_subjob_index called the way its callers do: a cursor walks one    *)
(* text, each call starting where the last successful one stopped.  Here   *)
(* buf is the text, cur the cursor, prc the last return code (0 before     *)
(* the first call) and last the record of the last call: where it          *)
(* started and everything it returned.  The other variables are unused.    *)
(***************************************************************************)
MaxSegNum == 1

ParseSegs ==
  {IntToStr(x) : x \in 0..MaxSegNum}
    \cup {DashText(x, x + d) : x \in 0..MaxSegNum, d \in 1..2}
    \cup {DashStepText(x, x + d, z) : x \in 0..MaxSegNum, d \in 1..2,
                                      z \in 1..2}
    \cup {<<"a">>, <<"2", "-", "1">>, <<"1", ":", "2">>, <<"1", "a">>,
          <<"1", " ", " ">>}

ParseLeads == {<<>>, <<" ">>, <<",">>, <<",", " ">>}

ParseTails ==
  {<<>>, <<"]">>, <<",">>, <<",", "]">>, <<" ", ",">>, <<",", " ", "7">>,
   <<",", "7", "-", "9">>}

ParseTexts ==
  {l \o g \o t : l \in ParseLeads, g \in ParseSegs, t \in ParseTails}
    \cup {l \o t : l \in ParseLeads, t \in {<<>>, <<"]">>, <<"]", "5">>}}

ParseInit ==
  /\ buf \in ParseTexts
  /\ cur = 1
  /\ prc = 0
  /\ last = [op |-> "none"]
  /\ ji_ajtrk = <<>>
  /\ parent = <<>>
  /\ hooks = <<>>
  /\ nalloc = 0
  /\ got = <<>>
  /\ bufof = <<>>

ParseCalled(r) ==
  /\ last' = [op |-> "parse_subjob_index", from |-> cur, rc |-> r.rc,
              ep |-> r.ep, start |-> r.start, end |-> r.end,
              step |-> r.step, count |-> r.count]
  /\ prc' = r.rc
  /\ cur' = IF r.rc = 0 THEN r.ep ELSE cur

(* One call at the cursor; the caller's loop ends at the first return code
   that is not 0. *)
ParseCall ==
  /\ prc = 0
  /\ ParseCalled(parse_subjob_index(buf, cur))
  /\ UNCHANGED <<ji_ajtrk, lifevars, buf, got, bufof>>

(* The caller starts over on the same text. *)
ParseRewind ==
  /\ prc # 0
  /\ cur' = 1
  /\ prc' = 0
  /\ last' = [op |-> "rewind"]
  /\ UNCHANGED <<ji_ajtrk, lifevars, buf, got, bufof>>

ParseTextNext ==
  \/ ParseCall
  \/ ParseRewind

SpecParse == ParseInit /\ [][ParseTextNext]_vars

(* The first position at or after i that holds a comma, a ']' or the end
   of the string. *)
RECURSIVE FirstTerminator(_, _)
FirstTerminator(s, i) ==
  IF CharAt(s, i) \in {NUL, ",", "]"} THEN i ELSE FirstTerminator(s, i + 1)

(* The first position at or after i that holds neither white space nor a
   comma. *)
RECURSIVE FirstNonBlank(_, _)
FirstNonBlank(s, i) ==
  IF isspace(CharAt(s, i)) \/ CharAt(s, i) = ","
  THEN FirstNonBlank(s, i + 1) ELSE i

(* C29: after a successful parse of a segment that is followed by a comma
   ("X,", "X-Y," or "X-Y:Z,"), the returned cursor points at the character
   just after that comma. *)
C29_CursorPastComma ==
  (/\ last.op = "parse_subjob_index"
   /\ last.rc = 0
   /\ CharAt(buf, FirstTerminator(buf, FirstNonBlank(buf, last.from))) = ",")
    => last.ep = FirstTerminator(buf, FirstNonBlank(buf, last.from)) + 1

(* C30: when the text from the cursor is only spaces and commas up to the
   end of the string or a ']', parse_subjob_index returns 1, not the error
   code, with count 0 and the cursor on that terminating character. *)
C30_EndOfInput ==
  (/\ last.op = "parse_subjob_index"
   /\ CharAt(buf, FirstNonBlank(buf, last.from)) \in {NUL, "]"})
    => /\ last.rc = 1
       /\ last.count = 0
       /\ last.ep = FirstNonBlank(buf, last.from)

C30_Witness ==
  /\ last.op = "parse_subjob_index"
  /\ buf = <<",", " ", "0", "-", "1", ",", "]">>
  /\ last.from = 6
  /\ last.rc = 1
  /\ last.count = 0
  /\ last.ep = 7

(* The position and value of the integer a call starting at i reads, once
   leading white space and commas are skipped. *)
FirstNumber(s, i) == ScanDigits(s, FirstNonBlank(s, i), 0)

(* The character that follows that integer and its trailing white space. *)
AfterNumber(s, i) == CharAt(s, SkipSpace(s, FirstNumber(s, i).eptr))

(* C31: an integer X followed, after optional spaces, by a comma, the end
   of the string or ']' parses to start = end = X, step = 1, count = 1; a
   first character that is no digit, or an integer followed by anything but
   those terminators or '-', is a syntax error. *)
C31_SingleValue ==
  last.op = "parse_subjob_index" =>
    /\ (/\ isdigit(CharAt(buf, FirstNonBlank(buf, last.from)))
        /\ AfterNumber(buf, last.from) \in {",", NUL, "]"})
         => /\ last.rc = 0
            /\ last.start = FirstNumber(buf, last.from).val
            /\ last.end = last.start
            /\ last.step = 1
            /\ last.count = 1
    /\ (/\ ~isdigit(CharAt(buf, FirstNonBlank(buf, last.from)))
        /\ CharAt(buf, FirstNonBlank(buf, last.from)) \notin {NUL, "]"})
         => last.rc = -1
    /\ (/\ isdigit(CharAt(buf, FirstNonBlank(buf, last.from)))
        /\ AfterNumber(buf, last.from) \notin {",", NUL, "]", "-"})
         => last.rc = -1

C31_Witness ==
  /\ last.op = "parse_subjob_index"
  /\ buf = <<",", " ", "1", " ", ",">>
  /\ last.from = 1
  /\ last.rc = 0
  /\ last.start = 1
  /\ last.end = 1
  /\ last.step = 1
  /\ last.count = 1
  /\ last.ep = 6

(***************************************************************************)
(* parse_subjob_index on segments whose numbers reach the top of the range *)
(* of int.  buf is the text and last the record of the call.  The sum      *)
(* end - start + step of line 1220 is a signed addition; when it overflows *)
(* the behaviour is undefined, and the build decides: the sum wraps        *)
(* (two's complement hardware, -fwrapv) or the call traps (-ftrapv, the    *)
(* undefined-behaviour sanitizer) and returns nothing.                     *)
(***************************************************************************)
MaxBigStart == 3

BigEnds == {4, 5, INT_MAX - 1, INT_MAX}

BigSteps == {1, 2, 3, INT_MAX - 1, INT_MAX}

CountTexts ==
  {IntToStr(x) : x \in 0..MaxBigStart}
    \cup {DashText(x, y) : x \in 0..MaxBigStart, y \in BigEnds}
    \cup {DashStepText(x, y, z) : x \in 0..MaxBigStart, y \in BigEnds,
                                  z \in BigSteps}

OverflowOutcomes == {"wrap", "trap"}

CountInit ==
  /\ buf \in CountTexts
  /\ cur = 1
  /\ prc = 0
  /\ last = [op |-> "none"]
  /\ ji_ajtrk = <<>>
  /\ parent = <<>>
  /\ hooks = <<>>
  /\ nalloc = 0
  /\ got = <<>>
  /\ bufof = <<>>

(* The record of a call that returned r, or of one that trapped. *)
CountReturned(r, ub) ==
  IF r.rc = 0 /\ AddOverflows(r.end - r.start, r.step) /\ ub = "trap"
  THEN [op |-> "trapped"]
  ELSE [op |-> "parse_subjob_index", rc |-> r.rc, start |-> r.start,
        end |-> r.end, step |-> r.step, count |-> r.count]

CountCall ==
  /\ last.op = "none"
  /\ \E ub \in OverflowOutcomes :
       last' = CountReturned(parse_subjob_index(buf, cur), ub)
  /\ UNCHANGED <<ji_ajtrk, lifevars, codecvars>>

CountNext == CountCall

SpecCount == CountInit /\ [][CountNext]_vars

(* C32: for every accepted segment the returned count is at least 1 and is
   the number of values start, start + step, ... that are <= end, also
   when step is close to the largest int. *)
C32_CountIsNumberOfIndices ==
  (last.op = "parse_subjob_index" /\ last.rc = 0)
    => /\ last.count >= 1
       /\ last.count = ((last.end - last.start) \div last.step) + 1

(* The position of the first comma of s, Len(s) + 1 when it has none. *)
RECURSIVE FirstComma(_, _)
FirstComma(s, i) ==
  IF CharAt(s, i) \in {NUL, ","} THEN i ELSE FirstComma(s, i + 1)

FirstSegment(s) == SubSeq(s, 1, FirstComma(s, 1) - 1)

MultiSegment(i) == FirstComma(InputText(i), 1) <= Len(InputText(i))

(* C33: the table is built from the first segment of the range text only:
   a multi-segment text such as "1-3,7-9" is not refused, and the table's
   start, end, step, count and entries are those of the first segment. *)
C33_FirstSegmentOnly ==
  (last.op = "mk_subjob_index_tbl" /\ MultiSegment(last.input))
    => /\ last.pbserror # PBSE_BADATVAL
       /\ last.pbserror = PBSE_NONE
            => /\ ji_ajtrk =
                    mk_subjob_index_tbl(FirstSegment(InputText(last.input)),
                                        last.initalstate, last.mode,
                                        last.limit, TRUE).tbl
               /\ Len(ji_ajtrk[1].tkm_tbl) = ji_ajtrk[1].tkm_ct
       /\ (last.pbserror = PBSE_NONE /\ last.input.form = "1-3,7-9")
            => /\ ji_ajtrk[1].tkm_start = 1
               /\ ji_ajtrk[1].tkm_end = 3
               /\ ji_ajtrk[1].tkm_step = 1
               /\ ji_ajtrk[1].tkm_ct = 3

C33_Witness ==
  /\ last.op = "mk_subjob_index_tbl"
  /\ last.input.form = "1-3,7-9"
  /\ last.pbserror = PBSE_NONE
  /\ last.mode = ATR_ACTION_NEW
  /\ ji_ajtrk # NULLTBL
  /\ ji_ajtrk[1].tkm_ct = 3
  /\ ji_ajtrk[1].tkm_end = 3

(***************************************************************************)
(* fixup_arrayindicies on a job that has its table: moved into this server *)
(* (JOB_SVFLG_HERE clear) or created here (set), in every mode, the        *)
(* entries in any states before the call.  last records the text and the   *)
(* mode of the call.                                                       *)
(***************************************************************************)
FixTables == {Text14s3, Text03}

FixTexts ==
  {Dash, <<"4">>, <<"1", ",", "4">>, Text03, <<"7", "-", "9">>,
   <<"1", "-", "2", ",", "4">>, <<"0", "-", "4", ":", "2", ",", "3">>,
   <<" ", "1", " ", ",", " ", "3">>, <<"1", ",", "a", ",", "3">>}

FixModes == {ATR_ACTION_NEW, ATR_ACTION_ALTER, ATR_ACTION_RECOV}

FixInit ==
  /\ \E text \in FixTables, flags \in {{}, {JOB_SVFLG_HERE}} :
       DoneBuilt(setup_arrayjob_attrs(
                   [t |-> NULLTBL, p |-> NewParent(flags, FALSE),
                    h |-> NoHooks, b |-> <<>>, saves |-> 0, fin |-> 0],
                   text, ATR_ACTION_NEW, PBS_MAX_ARRAY_JOB_DFL, TRUE))
  /\ hooks = NoHooks
  /\ nalloc = 0
  /\ last = [op |-> "setup_arrayjob_attrs"]
  /\ CodecInit

FixState(o, s) ==
  /\ ValidOffset(ji_ajtrk[1], o)
  /\ ji_ajtrk' = set_subjob_tblstate(ji_ajtrk, o, s)
  /\ last' = [op |-> "set_subjob_tblstate"]
  /\ UNCHANGED <<lifevars, codecvars>>

FixReturned(r, text, mode) ==
  /\ ji_ajtrk' = r.w.t
  /\ parent' = r.w.p
  /\ last' = [op |-> "fixup_arrayindicies", text |-> text, mode |-> mode,
              rc |-> r.rc]
  /\ UNCHANGED <<hooks, nalloc, codecvars>>

FixCall(text, mode) ==
  /\ ~parent.gone
  /\ FixReturned(fixup_arrayindicies(World, text, mode), text, mode)

FixNext ==
  \/ \E o \in 0 .. 3, s \in LifeStates : FixState(o, s)
  \/ \E text \in FixTexts, mode \in FixModes : FixCall(text, mode)

SpecFixup == FixInit /\ [][FixNext]_vars

(* The comma-separated pieces of a text. *)
Pieces(s) ==
  {SubSeq(s, i, j) :
     <<i, j>> \in {x \in (1 .. Len(s)) \X (1 .. Len(s)) :
                     /\ x[1] <= x[2]
                     /\ CharAt(s, x[1] - 1) \in {NUL, ","}
                     /\ CharAt(s, x[2] + 1) \in {NUL, ","}
                     /\ \A k \in x[1] .. x[2] : s[k] # ","}}

(* Every piece is a segment X, X-Y or X-Y:Z. *)
EverySegmentParses(s) == \A p \in Pieces(s) : parse_subjob_index(p, 1).rc = 0

(* The indices one segment names. *)
NamedBySegment(r) ==
  {v \in r.start .. r.end : (v - r.start) % r.step = 0}

(* The indices a text names; the text "-" names none. *)
NamedBy(s) ==
  IF s = Dash THEN {}
  ELSE UNION {NamedBySegment(parse_subjob_index(p, 1)) : p \in Pieces(s)}

FixupSkips ==
  JOB_SVFLG_HERE \in parent.ji_svrflags /\ last.mode = ATR_ACTION_NEW

QueuedAfterFixup(t, named) ==
  {k \in Offsets(t) : SJ_TBLIDX_2_IDX(t, k) \in named}

(* C34: unless the job originated here and the mode is NEW,
   fixup_arrayindicies leaves Queued exactly the entries whose index some
   segment of the text names, every other entry Expired, and the histogram
   in step; indices the table does not have are ignored.  A job that
   originated here is left as it was in mode NEW. *)
C34_FixupRemaining ==
  /\ []((/\ last.op = "fixup_arrayindicies"
         /\ ~FixupSkips
         /\ (EverySegmentParses(last.text) \/ last.text = Dash))
          => /\ last.rc = PBSE_NONE
             /\ \A k \in Offsets(ji_ajtrk[1]) :
                  Entry(ji_ajtrk[1], k).trk_status =
                    IF k \in QueuedAfterFixup(ji_ajtrk[1], NamedBy(last.text))
                    THEN JOB_STATE_QUEUED ELSE JOB_STATE_EXPIRED
             /\ \A s \in AllJobStates :
                  ji_ajtrk[1].tkm_subjsct[s] = NumInState(ji_ajtrk[1], s))
  /\ [][(/\ last'.op = "fixup_arrayindicies"
         /\ last'.mode = ATR_ACTION_NEW
         /\ JOB_SVFLG_HERE \in parent.ji_svrflags)
          => /\ ji_ajtrk' = ji_ajtrk
             /\ parent' = parent
             /\ last'.rc = PBSE_NONE]_vars

C34_Witness ==
  /\ last.op = "fixup_arrayindicies"
  /\ last.text = <<"0", "-", "4", ":", "2", ",", "3">>
  /\ last.mode = ATR_ACTION_NEW
  /\ JOB_SVFLG_HERE \notin parent.ji_svrflags
  /\ ji_ajtrk[1].tkm_ct = 4
  /\ Entry(ji_ajtrk[1], 0).trk_status = JOB_STATE_QUEUED
  /\ Entry(ji_ajtrk[1], 1).trk_status = JOB_STATE_EXPIRED
  /\ Entry(ji_ajtrk[1], 2).trk_status = JOB_STATE_QUEUED
  /\ Entry(ji_ajtrk[1], 3).trk_status = JOB_STATE_QUEUED
  /\ ji_ajtrk[1].tkm_subjsct[JOB_STATE_QUEUED] = 3

(* C35: setup_arrayjob_attrs in mode ATR_ACTION_ALTER on an array job whose
   state is not Queued returns PBSE_MODATRRUN and leaves the tracking table
   and the remaining-indices text as they were. *)
C35_AlterOnceBegun ==
  [][(/\ last'.op = "setup_arrayjob_attrs"
      /\ last'.n = last.n + 1
      /\ last'.c.mode = ATR_ACTION_ALTER
      /\ parent.ji_state # JOB_STATE_QUEUED)
       => /\ last'.rc = PBSE_MODATRRUN
          /\ ji_ajtrk' = ji_ajtrk
          /\ parent'.remaining = parent.remaining]_vars

C35_Witness ==
  /\ last.op = "setup_arrayjob_attrs"
  /\ last.c.mode = ATR_ACTION_ALTER
  /\ last.c.text = Text14s3
  /\ last.rc = PBSE_MODATRRUN
  /\ parent.ji_state = JOB_STATE_BEGUN
  /\ parent.remaining = <<Text3>>
  /\ ji_ajtrk # NULLTBL
  /\ ji_ajtrk[1].tkm_ct = 1

(***************************************************************************)
(* is_job_array on job ids: every text of up to MaxIdLen characters over   *)
(* the characters that matter to it, and whole ids of the usual forms.     *)
(* buf is the id, last the code returned.                                  *)
(***************************************************************************)
MaxIdLen == 3

IdChars == {"7", "[", "]", "-", ",", "h"}

ShortIds == UNION {[1 .. n -> IdChars] : n \in 0 .. MaxIdLen}

WholeIds ==
  {ParentJid, <<"7", ".", "h">>, <<"7", "[", "3", "]", ".", "h">>,
   <<"7", "[", "1", "2", "]", ".", "h">>,
   <<"7", "[", "1", "-", "4", "]", ".", "h">>,
   <<"7", "[", "1", ",", "4", "]", ".", "h">>,
   <<"7", "[", "1", "2", ",", "4", "]", ".", "h">>}

ClassifyInit ==
  /\ buf \in ShortIds \cup WholeIds
  /\ cur = 1
  /\ prc = 0
  /\ last = [op |-> "none"]
  /\ ji_ajtrk = <<>>
  /\ parent = <<>>
  /\ hooks = <<>>
  /\ nalloc = 0
  /\ got = <<>>
  /\ bufof = <<>>

IsJobArray ==
  /\ last.op = "none"
  /\ last' = [op |-> "is_job_array", code |-> is_job_array(buf)]
  /\ UNCHANGED <<ji_ajtrk, lifevars, codecvars>>

ClassifyNext == IsJobArray

SpecClassify == ClassifyInit /\ [][ClassifyNext]_vars

HasBracket(id) == \E k \in 1 .. Len(id) : id[k] = "["

(* The position of the first '[' of an id that has one. *)
FirstBracket(id) ==
  CHOOSE k \in 1 .. Len(id) :
    id[k] = "[" /\ \A j \in 1 .. (k - 1) : id[j] # "["

(* After position b come n digits, n >= 0, and then a '-' or a ','. *)
DigitRunThenSeparator(id, b) ==
  \E n \in 0 .. Len(id) :
    /\ \A k \in 1 .. n : isdigit(CharAt(id, b + k))
    /\ CharAt(id, b + n + 1) \in {"-", ","}

(* C36: is_job_array returns exactly one of four codes, decided by what
   follows the first opening bracket: no bracket at all is a regular job,
   a closing bracket right after it an array job, digits followed by a dash
   or a comma a range of subjobs, anything else a single subjob. *)
C36_Classification ==
  last.op = "is_job_array" =>
    /\ last.code \in {IS_ARRAY_NO, IS_ARRAY_ArrayJob, IS_ARRAY_Single,
                      IS_ARRAY_Range}
    /\ (last.code = IS_ARRAY_NO) <=> ~HasBracket(buf)
    /\ (last.code = IS_ARRAY_ArrayJob) <=>
         (HasBracket(buf) /\ CharAt(buf, FirstBracket(buf) + 1) = "]")
    /\ (last.code = IS_ARRAY_Range) <=>
         (/\ HasBracket(buf)
          /\ CharAt(buf, FirstBracket(buf) + 1) # "]"
          /\ DigitRunThenSeparator(buf, FirstBracket(buf)))
    /\ (last.code = IS_ARRAY_Single) <=>
         (/\ HasBracket(buf)
          /\ CharAt(buf, FirstBracket(buf) + 1) # "]"
          /\ ~DigitRunThenSeparator(buf, FirstBracket(buf)))

C36_Witness ==
  /\ last.op = "is_job_array"
  /\ buf = <<"7", "[", "1", "2", ",", "4", "]", ".", "h">>
  /\ last.code = IS_ARRAY_Range

(* The external indices whose entries are Queued. *)
QueuedIndices(t) ==
  {SJ_TBLIDX_2_IDX(t, k) :
     k \in {o \in Offsets(t) : Entry(t, o).trk_status = JOB_STATE_QUEUED}}

(* C37: after every successful setup_arrayjob_attrs call, in mode NEW, RECOV
   or ALTER, the table's start, end, step and count are those the job's
   submitted-indices text parses to, and while the dirty flag is clear the
   remaining-indices text denotes exactly the indices whose entries are
   Queued. *)
C37_TableMatchesText ==
  (last.op = "setup_arrayjob_attrs" /\ last.rc = PBSE_NONE)
    => /\ ji_ajtrk # NULLTBL
       /\ parse_subjob_index(last.c.text, 1).rc = 0
       /\ ji_ajtrk[1].tkm_start = parse_subjob_index(last.c.text, 1).start
       /\ ji_ajtrk[1].tkm_end = parse_subjob_index(last.c.text, 1).end
       /\ ji_ajtrk[1].tkm_step = parse_subjob_index(last.c.text, 1).step
       /\ ji_ajtrk[1].tkm_ct = parse_subjob_index(last.c.text, 1).count
       /\ (TKMFLG_REVAL_IND_REMAINING \notin ji_ajtrk[1].tkm_flags
             /\ parent.remaining # <<>>)
            => NamedBy(parent.remaining[1]) = QueuedIndices(ji_ajtrk[1])

(***************************************************************************)
(* The array job of SpecDone, whose table setup_arrayjob_attrs may build   *)
(* again while the job has one (refresh_job reloading the job's attributes *)
(* from the database runs the attribute's action routine on the job in     *)
(* memory).  Here nalloc counts these calls, at most MaxRebuilds of them,  *)
(* and hooks goes on counting over them.                                   *)
(***************************************************************************)
MaxRebuilds == 1

RebuildReturned(r, text, mode) ==
  /\ ji_ajtrk' = r.w.t
  /\ parent' = r.w.p
  /\ last' = [op |-> "setup_arrayjob_attrs", text |-> text, mode |-> mode,
              rc |-> r.rc, fin |-> 0, saves |-> 0]

Rebuild(text, mode) ==
  /\ ~parent.gone
  /\ ji_ajtrk # NULLTBL
  /\ nalloc < MaxRebuilds
  /\ nalloc' = nalloc + 1
  /\ RebuildReturned(setup_arrayjob_attrs(World, text, mode,
                                          PBS_MAX_ARRAY_JOB_DFL, TRUE),
                     text, mode)
  /\ UNCHANGED <<hooks, codecvars>>

RebuildNext ==
  \/ DoneNext
  \/ \E text \in DoneTexts, mode \in {ATR_ACTION_NEW, ATR_ACTION_RECOV} :
       Rebuild(text, mode)

SpecRebuild == DoneInit /\ [][RebuildNext]_vars

(* A table as mk_subjob_index_tbl leaves it: every entry Queued, error 0,
   no subjob linked, the histogram all on Queued. *)
FreshTable(t) ==
  /\ \A k \in Offsets(t) :
       /\ Entry(t, k).trk_status = JOB_STATE_QUEUED
       /\ Entry(t, k).trk_error = 0
       /\ Entry(t, k).trk_psubjob = NULLJOB
  /\ \A s \in AllJobStates :
       t.tkm_subjsct[s] = IF s = JOB_STATE_QUEUED THEN t.tkm_ct ELSE 0
  /\ t.tkm_ct = parse_subjob_index(last.text, 1).count

Rebuilt == last.op = "setup_arrayjob_attrs" /\ nalloc > 0

(* C38 as stated: after setup_arrayjob_attrs in mode NEW or RECOV on a job
   that had a table, the table is fresh and all its flags are clear. *)
C38_RebuildClearsAllFlags ==
  Rebuilt =>
    /\ last.rc = PBSE_NONE
    /\ FreshTable(ji_ajtrk[1])
    /\ ji_ajtrk[1].tkm_flags = {}

(* C38, amended: the table is fresh and the flags TKMFLG_CHK_ARRAY and
   TKMFLG_NO_DELETE are clear in both modes; the dirty flag
   TKMFLG_REVAL_IND_REMAINING is clear after NEW and set after RECOV. *)
C38_RebuildDiscards ==
  Rebuilt =>
    /\ last.rc = PBSE_NONE
    /\ FreshTable(ji_ajtrk[1])
    /\ ji_ajtrk[1].tkm_flags =
         IF last.mode = ATR_ACTION_RECOV
         THEN {TKMFLG_REVAL_IND_REMAINING} ELSE {}

(* The doneness of one job has fired twice: once before the table was
   built again, once after. *)
C38_Witness ==
  /\ nalloc = 1
  /\ hooks.acct = 2
  /\ ~parent.gone
  /\ TKMFLG_CHK_ARRAY \in ji_ajtrk[1].tkm_flags

(***************************************************************************)
(* fixup_arrayindicies step by step, on a job moved into this server whose *)
(* table was built from "0-3".  buf is the remaining-indices text, cur the *)
(* cursor str, and last the position in the function: pc is "begin"        *)
(* (before the expire loop), "parse" (at the call of parse_subjob_index),  *)
(* "queue" (at the test of the for loop, with i, end and step), "done"     *)
(* (returned ret) or "trapped".  The additions i += step of line 797 and   *)
(* end - start + step of line 1220 are signed; where one overflows the     *)
(* build decides between wrapping and trapping.                            *)
(***************************************************************************)
MaxTermStart == 1

BigStep == (INT_MAX \div 2) + 1

TermTexts ==
  {DashStepText(x, y, z) : x \in 0 .. MaxTermStart, y \in 2 .. 4, z \in 1 .. 2}
    \cup {DashStepText(x, y, BigStep) :
            x \in 0 .. MaxTermStart, y \in {5, BigStep, BigStep + 1, INT_MAX}}
    \cup FixTexts
    \cup {<<>>, <<"3", "-", "1">>, <<"2", ",", "]", "3">>}

TermInit ==
  /\ DoneBuilt(setup_arrayjob_attrs(
                 [t |-> NULLTBL, p |-> NewParent({}, FALSE),
                  h |-> NoHooks, b |-> <<>>, saves |-> 0, fin |-> 0],
                 Text03, ATR_ACTION_NEW, PBS_MAX_ARRAY_JOB_DFL, TRUE))
  /\ hooks = NoHooks
  /\ nalloc = 0
  /\ last = [pc |-> "begin"]
  /\ buf \in TermTexts
  /\ cur = 1
  /\ got = {}
  /\ prc = 0
  /\ bufof = <<>>

(* Lines 783-793: the tests pass for this job, every entry is expired, and
   str is set to the start of the text. *)
TermBegin ==
  /\ last.pc = "begin"
  /\ ji_ajtrk' = ExpireFrom(ji_ajtrk, 0)
  /\ last' = [pc |-> "parse"]
  /\ UNCHANGED <<lifevars, codecvars>>

(* Lines 795-797 once parse_subjob_index has returned r: the loop is left
   with PBSE_NONE, or the for loop starts at r.start with str = ep of line
   799 taken early (str is not read in between). *)
TermParsed(r, ub) ==
  IF r.rc = 0 /\ AddOverflows(r.end - r.start, r.step) /\ ub = "trap"
  THEN [pc |-> "trapped"]
  ELSE IF r.rc # 0
  THEN [pc |-> "done", rc |-> r.rc, ret |-> PBSE_NONE]
  ELSE [pc |-> "queue", i |-> r.start, end |-> r.end, step |-> r.step]

(* parse_subjob_index tabulated over the texts and cursors of this
   specification. *)
TermParseAt ==
  [t \in TermTexts |->
     [c \in 1 .. (Len(t) + 1) |-> parse_subjob_index(t, c)]]

TermParse ==
  /\ last.pc = "parse"
  /\ \E ub \in OverflowOutcomes : last' = TermParsed(TermParseAt[buf][cur], ub)
  /\ cur' = IF last'.pc = "queue" THEN TermParseAt[buf][cur].ep ELSE cur
  /\ UNCHANGED <<ji_ajtrk, lifevars, buf, got, prc, bufof>>

(* i += step *)
TermStepped(ub) ==
  IF AddOverflows(last.i, last.step) /\ ub = "trap"
  THEN [pc |-> "trapped"]
  ELSE [last EXCEPT !.i = AddInt(last.i, last.step)]

(* One turn of "for (i = start; i <= end; i += step)": the body and the
   increment, or the exit to the next parse_subjob_index call. *)
TermQueue ==
  /\ last.pc = "queue"
  /\ IF last.i <= last.end
     THEN /\ ji_ajtrk' = set_subjob_tblstate(
                           ji_ajtrk, numindex_to_offset(ji_ajtrk, last.i),
                           JOB_STATE_QUEUED)
          /\ \E ub \in OverflowOutcomes : last' = TermStepped(ub)
     ELSE /\ ji_ajtrk' = ji_ajtrk
          /\ last' = [pc |-> "parse"]
  /\ UNCHANGED <<lifevars, codecvars>>

TermNext ==
  \/ TermBegin
  \/ TermParse
  \/ TermQueue

SpecTerm == TermInit /\ [][TermNext]_vars /\ WF_vars(TermNext)

(* C39: fixup_arrayindicies terminates for every text: each successful
   parse_subjob_index call moves the cursor on by at least one character,
   and the loop ends at the first end-of-input or syntax-error result,
   PBSE_NONE being returned in both cases. *)
C39_FixupTerminates ==
  /\ [][(last.pc = "parse" /\ last'.pc = "queue") => cur' > cur]_vars
  /\ <>(last.pc = "done" /\ last.ret = PBSE_NONE)

(***************************************************************************)
(* The subjob id round trip: mk_subjob_id builds the id of the subjob at   *)
(* an offset of the parent's table, and is_job_array, get_index_from_jid,  *)
(* subjob_index_to_offset and find_arrayparent take it apart again.  The   *)
(* parent's id is "seq[].host"; buf is the id mk_subjob_id returned, cur   *)
(* the offset it was given, bufof what get_index_from_jid returned, and    *)
(* last the call made last with what it returned.  The ids of this         *)
(* specification fit the buffers of PBS_MAXSVRJOBID + 1 characters.        *)
(***************************************************************************)
RoundSeqs == {<<"7">>, <<"1", "2">>}

RoundHosts == {<<".", "h">>, <<".", "h", ".", "d">>}

RoundParentIds == {s \o <<"[", "]">> \o h : s \in RoundSeqs, h \in RoundHosts}

(* find_arrayparent that leaves out "strcat(idbuf, pc)". *)
find_arrayparent_NoHost(subjobid) ==
  SubSeq(subjobid, 1, strchr(subjobid, "[", 1)) \o <<"]">>

(* find_arrayparent(subjobid) up to the call of find_job: idbuf, for a
   subjobid that has a '['. *)
find_arrayparent(subjobid) ==
  SubSeq(subjobid, 1, strchr(subjobid, "[", 1)) \o <<"]">>
    \o (IF strchr(subjobid, ".", 1) = 0 THEN <<>>
        ELSE SubSeq(subjobid, strchr(subjobid, ".", 1), Len(subjobid)))

RoundInit ==
  /\ \E r \in ValidRangeTexts :
       ji_ajtrk = mk_subjob_index_tbl(r, JOB_STATE_QUEUED, ATR_ACTION_NEW,
                                      PBS_MAX_ARRAY_JOB_DFL, TRUE).tbl
  /\ \E id \in RoundParentIds :
       parent = [NewParent({JOB_SVFLG_ArrayJob}, FALSE) EXCEPT !.ji_jobid = id]
  /\ hooks = NoHooks
  /\ nalloc = 0
  /\ last = [op |-> "mk_subjob_index_tbl"]
  /\ CodecInit

MkSubjobId(o) ==
  /\ ValidOffset(ji_ajtrk[1], o)
  /\ buf' = mk_subjob_id(parent.ji_jobid, ji_ajtrk[1], o)
  /\ cur' = o
  /\ bufof' = <<>>
  /\ last' = [op |-> "mk_subjob_id"]
  /\ UNCHANGED <<ji_ajtrk, lifevars, got, prc>>

RoundIsJobArray ==
  /\ buf # <<>>
  /\ last' = [op |-> "is_job_array", kind |-> is_job_array(buf)]
  /\ UNCHANGED <<ji_ajtrk, lifevars, codecvars>>

GetIndexFromJid ==
  /\ buf # <<>>
  /\ bufof' = get_index_from_jid(buf, TRUE)
  /\ last' = [op |-> "get_index_from_jid"]
  /\ UNCHANGED <<ji_ajtrk, lifevars, buf, cur, got, prc>>

SubjobIndexToOffset ==
  /\ bufof # <<>>
  /\ last' = [op |-> "subjob_index_to_offset",
              offset |-> subjob_index_to_offset(ji_ajtrk, bufof[1])]
  /\ UNCHANGED <<ji_ajtrk, lifevars, codecvars>>

FindArrayParent ==
  /\ buf # <<>>
  /\ strchr(buf, "[", 1) # 0
  /\ last' = [op |-> "find_arrayparent", idbuf |-> find_arrayparent(buf)]
  /\ UNCHANGED <<ji_ajtrk, lifevars, codecvars>>

RoundNext ==
  \/ \E o \in 0 .. 9 : MkSubjobId(o)
  \/ RoundIsJobArray
  \/ GetIndexFromJid
  \/ SubjobIndexToOffset
  \/ FindArrayParent

SpecRound == RoundInit /\ [][RoundNext]_vars

(* C40: the id mk_subjob_id builds for an offset of the table of the array
   job "seq[].host" is a single subjob to is_job_array, the index text
   get_index_from_jid takes from it is mapped back to that offset by
   subjob_index_to_offset, and the id find_arrayparent derives from it is
   the parent's id. *)
C40_IdRoundTrip ==
  /\ last.op = "is_job_array" => last.kind = IS_ARRAY_Single
  /\ last.op = "get_index_from_jid" =>
       bufof = <<IntToStr(SJ_TBLIDX_2_IDX(ji_ajtrk[1], cur))>>
  /\ last.op = "subjob_index_to_offset" => last.offset = cur
  /\ last.op = "find_arrayparent" => last.idbuf = parent.ji_jobid

(* The parent 12[].h.d of the subjob at offset 3 of "1-10:3", index 10, has
   been derived from the subjob's id 12[10].h.d. *)
C40_Witness ==
  /\ last.op = "find_arrayparent"
  /\ buf = <<"1", "2", "[", "1", "0", "]", ".", "h", ".", "d">>
  /\ cur = 3
  /\ bufof = <<<<"1", "0">>>>
  /\ last.idbuf = <<"1", "2", "[", "]", ".", "h", ".", "d">>

====
